---- MODULE Spec2Model ----
(***************************************************************************)
(* Reward scoring of the GRPO demo notebook (charbull/tunix).              *)
(*                                                                         *)
(* A text is a sequence of tokens.  A token is either one of the four      *)
(* marker strings of the notebook or a single character.  The text the     *)
(* Python code sees is the concatenation of the tokens.  No marker is a    *)
(* substring of a concatenation of other tokens (the single characters     *)
(* used here never include "<" or ">"), so an occurrence of a marker in    *)
(* the concatenated text is exactly an occurrence of its token.  A         *)
(* character that cannot be written in a string of this module (a control  *)
(* character other than tab, newline, form feed and carriage return, a     *)
(* character beyond ASCII) is named by its code point: "U+000B", "U+0663". *)
(*                                                                         *)
(* Scores are Python floats that are multiples of 0.25; the model keeps    *)
(* them as integers in hundredths (3.0 is 300, 0.25 is 25, -1.0 is -100).  *)
(***************************************************************************)
EXTENDS Integers, Sequences, FiniteSets, TLC

(***************************************************************************)
(* Markers                                                                 *)
(***************************************************************************)
reasoning_start == "<start_working_out>"
reasoning_end == "<end_working_out>"
solution_start == "<SOLUTION>"
solution_end == "</SOLUTION>"

Markers == {reasoning_start, reasoning_end, solution_start, solution_end}

\* Python's None (the result of a failed search, an absent ground truth):
\* a value that is no text, since "None" is no token of any text.
None == <<"None">>

(***************************************************************************)
(* Characters.  Python's str is Unicode: \s, \d, str.strip() and float()   *)
(* go by the Unicode properties of a character.  A character that cannot   *)
(* be written in a string of this module is named by its code point, as in *)
(* "U+000B" or "U+0663".                                                   *)
(***************************************************************************)
\* The characters matched by \s and removed by str.strip(): those for which
\* str.isspace() holds.
Whitespace ==
  { "\t", "\n", "U+000B", "\f", "\r", "U+001C", "U+001D", "U+001E", "U+001F",
    " ", "U+0085", "U+00A0", "U+1680", "U+2000", "U+2001", "U+2002",
    "U+2003", "U+2004", "U+2005", "U+2006", "U+2007", "U+2008", "U+2009",
    "U+200A", "U+2028", "U+2029", "U+202F", "U+205F", "U+3000" }

IsSpace(c) == c \in Whitespace

\* The decimal digits of Unicode (general category Nd), each script from its
\* zero to its nine.
DecimalDigits ==
  << <<"0", "1", "2", "3", "4", "5", "6", "7", "8", "9">>,
     <<"U+0660", "U+0661", "U+0662", "U+0663", "U+0664", "U+0665", "U+0666", "U+0667", "U+0668", "U+0669">>,
     <<"U+06F0", "U+06F1", "U+06F2", "U+06F3", "U+06F4", "U+06F5", "U+06F6", "U+06F7", "U+06F8", "U+06F9">>,
     <<"U+07C0", "U+07C1", "U+07C2", "U+07C3", "U+07C4", "U+07C5", "U+07C6", "U+07C7", "U+07C8", "U+07C9">>,
     <<"U+0966", "U+0967", "U+0968", "U+0969", "U+096A", "U+096B", "U+096C", "U+096D", "U+096E", "U+096F">>,
     <<"U+09E6", "U+09E7", "U+09E8", "U+09E9", "U+09EA", "U+09EB", "U+09EC", "U+09ED", "U+09EE", "U+09EF">>,
     <<"U+0A66", "U+0A67", "U+0A68", "U+0A69", "U+0A6A", "U+0A6B", "U+0A6C", "U+0A6D", "U+0A6E", "U+0A6F">>,
     <<"U+0AE6", "U+0AE7", "U+0AE8", "U+0AE9", "U+0AEA", "U+0AEB", "U+0AEC", "U+0AED", "U+0AEE", "U+0AEF">>,
     <<"U+0B66", "U+0B67", "U+0B68", "U+0B69", "U+0B6A", "U+0B6B", "U+0B6C", "U+0B6D", "U+0B6E", "U+0B6F">>,
     <<"U+0BE6", "U+0BE7", "U+0BE8", "U+0BE9", "U+0BEA", "U+0BEB", "U+0BEC", "U+0BED", "U+0BEE", "U+0BEF">>,
     <<"U+0C66", "U+0C67", "U+0C68", "U+0C69", "U+0C6A", "U+0C6B", "U+0C6C", "U+0C6D", "U+0C6E", "U+0C6F">>,
     <<"U+0CE6", "U+0CE7", "U+0CE8", "U+0CE9", "U+0CEA", "U+0CEB", "U+0CEC", "U+0CED", "U+0CEE", "U+0CEF">>,
     <<"U+0D66", "U+0D67", "U+0D68", "U+0D69", "U+0D6A", "U+0D6B", "U+0D6C", "U+0D6D", "U+0D6E", "U+0D6F">>,
     <<"U+0DE6", "U+0DE7", "U+0DE8", "U+0DE9", "U+0DEA", "U+0DEB", "U+0DEC", "U+0DED", "U+0DEE", "U+0DEF">>,
     <<"U+0E50", "U+0E51", "U+0E52", "U+0E53", "U+0E54", "U+0E55", "U+0E56", "U+0E57", "U+0E58", "U+0E59">>,
     <<"U+0ED0", "U+0ED1", "U+0ED2", "U+0ED3", "U+0ED4", "U+0ED5", "U+0ED6", "U+0ED7", "U+0ED8", "U+0ED9">>,
     <<"U+0F20", "U+0F21", "U+0F22", "U+0F23", "U+0F24", "U+0F25", "U+0F26", "U+0F27", "U+0F28", "U+0F29">>,
     <<"U+1040", "U+1041", "U+1042", "U+1043", "U+1044", "U+1045", "U+1046", "U+1047", "U+1048", "U+1049">>,
     <<"U+1090", "U+1091", "U+1092", "U+1093", "U+1094", "U+1095", "U+1096", "U+1097", "U+1098", "U+1099">>,
     <<"U+17E0", "U+17E1", "U+17E2", "U+17E3", "U+17E4", "U+17E5", "U+17E6", "U+17E7", "U+17E8", "U+17E9">>,
     <<"U+1810", "U+1811", "U+1812", "U+1813", "U+1814", "U+1815", "U+1816", "U+1817", "U+1818", "U+1819">>,
     <<"U+1946", "U+1947", "U+1948", "U+1949", "U+194A", "U+194B", "U+194C", "U+194D", "U+194E", "U+194F">>,
     <<"U+19D0", "U+19D1", "U+19D2", "U+19D3", "U+19D4", "U+19D5", "U+19D6", "U+19D7", "U+19D8", "U+19D9">>,
     <<"U+1A80", "U+1A81", "U+1A82", "U+1A83", "U+1A84", "U+1A85", "U+1A86", "U+1A87", "U+1A88", "U+1A89">>,
     <<"U+1A90", "U+1A91", "U+1A92", "U+1A93", "U+1A94", "U+1A95", "U+1A96", "U+1A97", "U+1A98", "U+1A99">>,
     <<"U+1B50", "U+1B51", "U+1B52", "U+1B53", "U+1B54", "U+1B55", "U+1B56", "U+1B57", "U+1B58", "U+1B59">>,
     <<"U+1BB0", "U+1BB1", "U+1BB2", "U+1BB3", "U+1BB4", "U+1BB5", "U+1BB6", "U+1BB7", "U+1BB8", "U+1BB9">>,
     <<"U+1C40", "U+1C41", "U+1C42", "U+1C43", "U+1C44", "U+1C45", "U+1C46", "U+1C47", "U+1C48", "U+1C49">>,
     <<"U+1C50", "U+1C51", "U+1C52", "U+1C53", "U+1C54", "U+1C55", "U+1C56", "U+1C57", "U+1C58", "U+1C59">>,
     <<"U+A620", "U+A621", "U+A622", "U+A623", "U+A624", "U+A625", "U+A626", "U+A627", "U+A628", "U+A629">>,
     <<"U+A8D0", "U+A8D1", "U+A8D2", "U+A8D3", "U+A8D4", "U+A8D5", "U+A8D6", "U+A8D7", "U+A8D8", "U+A8D9">>,
     <<"U+A900", "U+A901", "U+A902", "U+A903", "U+A904", "U+A905", "U+A906", "U+A907", "U+A908", "U+A909">>,
     <<"U+A9D0", "U+A9D1", "U+A9D2", "U+A9D3", "U+A9D4", "U+A9D5", "U+A9D6", "U+A9D7", "U+A9D8", "U+A9D9">>,
     <<"U+A9F0", "U+A9F1", "U+A9F2", "U+A9F3", "U+A9F4", "U+A9F5", "U+A9F6", "U+A9F7", "U+A9F8", "U+A9F9">>,
     <<"U+AA50", "U+AA51", "U+AA52", "U+AA53", "U+AA54", "U+AA55", "U+AA56", "U+AA57", "U+AA58", "U+AA59">>,
     <<"U+ABF0", "U+ABF1", "U+ABF2", "U+ABF3", "U+ABF4", "U+ABF5", "U+ABF6", "U+ABF7", "U+ABF8", "U+ABF9">>,
     <<"U+FF10", "U+FF11", "U+FF12", "U+FF13", "U+FF14", "U+FF15", "U+FF16", "U+FF17", "U+FF18", "U+FF19">>,
     <<"U+104A0", "U+104A1", "U+104A2", "U+104A3", "U+104A4", "U+104A5", "U+104A6", "U+104A7", "U+104A8", "U+104A9">>,
     <<"U+10D30", "U+10D31", "U+10D32", "U+10D33", "U+10D34", "U+10D35", "U+10D36", "U+10D37", "U+10D38", "U+10D39">>,
     <<"U+11066", "U+11067", "U+11068", "U+11069", "U+1106A", "U+1106B", "U+1106C", "U+1106D", "U+1106E", "U+1106F">>,
     <<"U+110F0", "U+110F1", "U+110F2", "U+110F3", "U+110F4", "U+110F5", "U+110F6", "U+110F7", "U+110F8", "U+110F9">>,
     <<"U+11136", "U+11137", "U+11138", "U+11139", "U+1113A", "U+1113B", "U+1113C", "U+1113D", "U+1113E", "U+1113F">>,
     <<"U+111D0", "U+111D1", "U+111D2", "U+111D3", "U+111D4", "U+111D5", "U+111D6", "U+111D7", "U+111D8", "U+111D9">>,
     <<"U+112F0", "U+112F1", "U+112F2", "U+112F3", "U+112F4", "U+112F5", "U+112F6", "U+112F7", "U+112F8", "U+112F9">>,
     <<"U+11450", "U+11451", "U+11452", "U+11453", "U+11454", "U+11455", "U+11456", "U+11457", "U+11458", "U+11459">>,
     <<"U+114D0", "U+114D1", "U+114D2", "U+114D3", "U+114D4", "U+114D5", "U+114D6", "U+114D7", "U+114D8", "U+114D9">>,
     <<"U+11650", "U+11651", "U+11652", "U+11653", "U+11654", "U+11655", "U+11656", "U+11657", "U+11658", "U+11659">>,
     <<"U+116C0", "U+116C1", "U+116C2", "U+116C3", "U+116C4", "U+116C5", "U+116C6", "U+116C7", "U+116C8", "U+116C9">>,
     <<"U+11730", "U+11731", "U+11732", "U+11733", "U+11734", "U+11735", "U+11736", "U+11737", "U+11738", "U+11739">>,
     <<"U+118E0", "U+118E1", "U+118E2", "U+118E3", "U+118E4", "U+118E5", "U+118E6", "U+118E7", "U+118E8", "U+118E9">>,
     <<"U+11950", "U+11951", "U+11952", "U+11953", "U+11954", "U+11955", "U+11956", "U+11957", "U+11958", "U+11959">>,
     <<"U+11C50", "U+11C51", "U+11C52", "U+11C53", "U+11C54", "U+11C55", "U+11C56", "U+11C57", "U+11C58", "U+11C59">>,
     <<"U+11D50", "U+11D51", "U+11D52", "U+11D53", "U+11D54", "U+11D55", "U+11D56", "U+11D57", "U+11D58", "U+11D59">>,
     <<"U+11DA0", "U+11DA1", "U+11DA2", "U+11DA3", "U+11DA4", "U+11DA5", "U+11DA6", "U+11DA7", "U+11DA8", "U+11DA9">>,
     <<"U+16A60", "U+16A61", "U+16A62", "U+16A63", "U+16A64", "U+16A65", "U+16A66", "U+16A67", "U+16A68", "U+16A69">>,
     <<"U+16AC0", "U+16AC1", "U+16AC2", "U+16AC3", "U+16AC4", "U+16AC5", "U+16AC6", "U+16AC7", "U+16AC8", "U+16AC9">>,
     <<"U+16B50", "U+16B51", "U+16B52", "U+16B53", "U+16B54", "U+16B55", "U+16B56", "U+16B57", "U+16B58", "U+16B59">>,
     <<"U+1D7CE", "U+1D7CF", "U+1D7D0", "U+1D7D1", "U+1D7D2", "U+1D7D3", "U+1D7D4", "U+1D7D5", "U+1D7D6", "U+1D7D7">>,
     <<"U+1D7D8", "U+1D7D9", "U+1D7DA", "U+1D7DB", "U+1D7DC", "U+1D7DD", "U+1D7DE", "U+1D7DF", "U+1D7E0", "U+1D7E1">>,
     <<"U+1D7E2", "U+1D7E3", "U+1D7E4", "U+1D7E5", "U+1D7E6", "U+1D7E7", "U+1D7E8", "U+1D7E9", "U+1D7EA", "U+1D7EB">>,
     <<"U+1D7EC", "U+1D7ED", "U+1D7EE", "U+1D7EF", "U+1D7F0", "U+1D7F1", "U+1D7F2", "U+1D7F3", "U+1D7F4", "U+1D7F5">>,
     <<"U+1D7F6", "U+1D7F7", "U+1D7F8", "U+1D7F9", "U+1D7FA", "U+1D7FB", "U+1D7FC", "U+1D7FD", "U+1D7FE", "U+1D7FF">>,
     <<"U+1E140", "U+1E141", "U+1E142", "U+1E143", "U+1E144", "U+1E145", "U+1E146", "U+1E147", "U+1E148", "U+1E149">>,
     <<"U+1E2F0", "U+1E2F1", "U+1E2F2", "U+1E2F3", "U+1E2F4", "U+1E2F5", "U+1E2F6", "U+1E2F7", "U+1E2F8", "U+1E2F9">>,
     <<"U+1E950", "U+1E951", "U+1E952", "U+1E953", "U+1E954", "U+1E955", "U+1E956", "U+1E957", "U+1E958", "U+1E959">>,
     <<"U+1FBF0", "U+1FBF1", "U+1FBF2", "U+1FBF3", "U+1FBF4", "U+1FBF5", "U+1FBF6", "U+1FBF7", "U+1FBF8", "U+1FBF9">> >>

\* Characters matched by \d
Digits == {DecimalDigits[r][k] : r \in 1..Len(DecimalDigits), k \in 1..10}

IsNumChar(c) == c \in Digits \cup {"."}

Min(S) == CHOOSE x \in S : \A y \in S : x <= y

AllSpace(s, i, j) == \A k \in i..j : IsSpace(s[k])

\* str.count(marker): markers cannot overlap themselves, so the count of
\* non-overlapping occurrences is the number of positions holding the token.
Count(s, m) == Cardinality({k \in 1..Len(s) : s[k] = m})

(***************************************************************************)
(* match_format: ^\s*RS.+?RE.*?SS(.+?)SE\s*$  with MULTILINE | DOTALL.     *)
(* Positions: p the reasoning-start, q the reasoning-end, r the solution-  *)
(* start, t the solution-end token of a match.                             *)
(***************************************************************************)
\* ^ under MULTILINE: start of the text or just after a newline.
LineStart(s, i) == i = 1 \/ s[i - 1] = "\n"

\* $ under MULTILINE: end of the text or just before a newline.
LineEnd(s, e) == e = Len(s) + 1 \/ s[e] = "\n"

\* HeadOK with the leading [\s]{0,} forgotten.
HeadOKNoSpace(s, p) == s[p] = reasoning_start /\ LineStart(s, p)

\* ^[\s]{0,} followed by the reasoning-start marker at p.
HeadOK(s, p) ==
  /\ s[p] = reasoning_start
  /\ \E i \in 1..p : LineStart(s, i) /\ AllSpace(s, i, p - 1)

\* the solution-end marker at t followed by [\s]{0,}$.
TailOK(s, t) ==
  /\ s[t] = solution_end
  /\ \E e \in (t + 1)..(Len(s) + 1) : AllSpace(s, t + 1, e - 1) /\ LineEnd(s, e)

\* (.+?)SE\s*$ after a solution-start at r: ends of the group, at least one
\* token inside (DOTALL: any token, markers and newlines included).
GroupEnds(s, r) == {t \in (r + 2)..Len(s) : TailOK(s, t)}

\* SolutionStarts with the solution-start marker sought in the whole text.
SolutionStartsAnywhere(s, q) ==
  {r \in 1..Len(s) : s[r] = solution_start /\ GroupEnds(s, r) # {}}

\* .*?SS(.+?)... after a reasoning-end at q.
SolutionStarts(s, q) ==
  {r \in (q + 1)..Len(s) : s[r] = solution_start /\ GroupEnds(s, r) # {}}

\* .+?RE... after a reasoning-start at p: at least one token in between.
ReasoningEnds(s, p) ==
  {q \in (p + 2)..Len(s) : s[q] = reasoning_end /\ SolutionStarts(s, q) # {}}

MatchStarts(s) ==
  {p \in 1..Len(s) : HeadOK(s, p) /\ ReasoningEnds(s, p) # {}}

\* match_format.search(s) is not None
FormatMatches(s) == MatchStarts(s) # {}

\* match_format.search(s).group(1): the search takes the leftmost start, and
\* each lazy quantifier the shortest extension that lets the rest match.
FormatGroup(s) ==
  LET p == Min(MatchStarts(s))
      q == Min(ReasoningEnds(s, p))
      r == Min(SolutionStarts(s, q))
      t == Min(GroupEnds(s, r))
  IN  <<r, t>>

match_format_search(s) ==
  IF FormatMatches(s)
  THEN LET g == FormatGroup(s) IN SubSeq(s, g[1] + 1, g[2] - 1)
  ELSE None

(***************************************************************************)
(* Naturals of any size: a little-endian sequence of limbs, each below     *)
(* Limb, the last one not zero; <<>> is 0.                                 *)
(***************************************************************************)
LimbBits == 15

Limb == 2^LimbBits

\* The one element of a singleton set: Once({F(v) : v \in {x}}) computes x
\* once and then applies F to its value.
Once(S) == CHOOSE res \in S : TRUE

Max(S) == CHOOSE x \in S : \A y \in S : y <= x

LimbAt(x, i) == IF i \in 1..Len(x) THEN x[i] ELSE 0

\* x without its leading zero limbs.
Trim(x) ==
  Once({(LET nz == {i \in 1..Len(v) : v[i] # 0}
         IN  IF nz = {} THEN <<>> ELSE SubSeq(v, 1, Max(nz))) : v \in {x}})

\* A natural below 2^31 as limbs.
Big(n) == Trim(<<n % Limb, (n \div Limb) % Limb, n \div (Limb * Limb)>>)

BigGeq(x, y) ==
  Once({(\/ Len(v[1]) > Len(v[2])
         \/ /\ Len(v[1]) = Len(v[2])
            /\ ~\E i \in 1..Len(v[1]) :
                  /\ v[1][i] < v[2][i]
                  /\ \A k \in (i + 1)..Len(v[1]) : v[1][k] = v[2][k]) : v \in {<<x, y>>}})

\* x + y: limb i takes a carry when a lower limb overflows and every limb in
\* between is full.
BigAdd(x, y) ==
  Once({(Trim([i \in 1..Len(s) |->
                 (s[i] + (IF \E j \in 1..(i - 1) :
                               /\ s[j] >= Limb
                               /\ \A k \in (j + 1)..(i - 1) : s[k] = Limb - 1
                          THEN 1 ELSE 0)) % Limb])) :
        s \in {[i \in 1..(Max({Len(x), Len(y)}) + 1) |-> LimbAt(x, i) + LimbAt(y, i)]}})

\* x - y for x >= y: limb i gives a borrow when a lower limb of x is below
\* that of y and the limbs in between are equal.
BigSub(x, y) ==
  Once({(Trim([i \in 1..Len(v[1]) |->
                 (v[1][i] - LimbAt(v[2], i) + Limb
                    - (IF \E j \in 1..(i - 1) :
                            /\ v[1][j] < LimbAt(v[2], j)
                            /\ \A k \in (j + 1)..(i - 1) : v[1][k] = LimbAt(v[2], k)
                       THEN 1 ELSE 0)) % Limb])) : v \in {<<x, y>>}})

\* x * 2^s
BigShl(x, s) ==
  Once({(LET w == v[2] \div LimbBits
             up == 2^(v[2] % LimbBits)
             down == 2^(LimbBits - (v[2] % LimbBits))
         IN  Trim([i \in 1..(Len(v[1]) + w + 1) |->
                     IF i <= w THEN 0
                     ELSE (LimbAt(v[1], i - w) % down) * up
                            + LimbAt(v[1], i - w - 1) \div down])) : v \in {<<x, s>>}})

\* x \div 2^s
BigShr(x, s) ==
  Once({(LET w == v[2] \div LimbBits
             down == 2^(v[2] % LimbBits)
             up == 2^(LimbBits - (v[2] % LimbBits))
         IN  Trim([i \in 1..(Len(v[1]) - w) |->
                     LimbAt(v[1], i + w) \div down
                       + (LimbAt(v[1], i + w + 1) % down) * up])) : v \in {<<x, s>>}})

\* The number of bits of x.
BitLen(x) ==
  Once({(IF v = <<>> THEN 0
         ELSE (Len(v) - 1) * LimbBits
                + (CHOOSE b \in 1..LimbBits : 2^(b - 1) <= v[Len(v)] /\ v[Len(v)] < 2^b)) :
        v \in {x}})

\* x * d for a single limb d.
BigMulLimb(x, d) ==
  Once({(BigAdd([i \in 1..Len(v[1]) |-> (v[1][i] * v[2]) % Limb],
                [i \in 1..(Len(v[1]) + 1) |->
                   IF i = 1 THEN 0 ELSE (v[1][i - 1] * v[2]) \div Limb])) : v \in {<<x, d>>}})

\* x times the limbs lo..hi of y, each at its place.
RECURSIVE BigMulRows(_, _, _, _)
BigMulRows(x, y, lo, hi) ==
  IF lo = hi THEN BigShl(BigMulLimb(x, y[lo]), (lo - 1) * LimbBits)
  ELSE BigAdd(BigMulRows(x, y, lo, (lo + hi) \div 2),
              BigMulRows(x, y, (lo + hi) \div 2 + 1, hi))

BigMul(x, y) ==
  Once({(IF v[1] = <<>> \/ v[2] = <<>> THEN <<>>
         ELSE BigMulRows(v[1], v[2], 1, Len(v[2]))) : v \in {<<x, y>>}})

\* 5^k
RECURSIVE Pow5(_)
Pow5(k) ==
  IF k <= 13 THEN Big(5^k)
  ELSE Once({(IF k % 2 = 0 THEN BigMul(h, h) ELSE BigMulLimb(BigMul(h, h), 5)) :
             h \in {Pow5(k \div 2)}})

\* 10^k
Pow10(k) == BigShl(Pow5(k), k)

(***************************************************************************)
(* Python floats (IEEE 754 binary64).  A float is the outcome of float()   *)
(* on a text that is no number (err), a NaN, an infinity, a zero, or       *)
(* sign * m * 2^e with 2^52 <= m < 2^53 and -1074 <= e <= 971 (normal) or  *)
(* 0 < m < 2^52 and e = -1074 (subnormal).                                 *)
(***************************************************************************)
MantissaBits == 53

MinExponent == -1074

MaxExponent == 971

\* k steps of the long division by d, bit by bit: qr is <<q, r>>, q the
\* quotient bits so far and r the remainder (r < d).
RECURSIVE DivBits(_, _, _)
DivBits(qr, d, k) ==
  Once({(IF v[3] = 0 THEN v[1]
         ELSE IF v[3] = 1
         THEN Once({(IF BigGeq(r2, v[2])
                     THEN <<BigAdd(BigShl(v[1][1], 1), <<1>>), BigSub(r2, v[2])>>
                     ELSE <<BigShl(v[1][1], 1), r2>>) : r2 \in {BigShl(v[1][2], 1)}})
         ELSE DivBits(DivBits(v[1], v[2], v[3] \div 2), v[2], v[3] - v[3] \div 2)) :
        v \in {<<qr, d, k>>}})

\* x divided by the single limb d > 0, limb by limb from the top:
\* <<quotient, remainder>>.
RECURSIVE ShortDiv(_, _)
ShortDiv(x, d) ==
  IF x = <<>> THEN <<<<>>, 0>>
  ELSE Once({(<<<<(hi[2] * Limb + x[1]) \div d>> \o hi[1], (hi[2] * Limb + x[1]) % d>>) :
             hi \in {ShortDiv(Tail(x), d)}})

\* k more bits of the quotient by d > 0, as DivBits gives them: a divisor that
\* is a single limb times a power of two is divided by limb by limb.
Quotient(qr, d, k) ==
  Once({(IF Len(v[2]) = 1 /\ k >= v[1]
         THEN Once({(<<BigAdd(BigShl(qr[1], k), Trim(t[1])), BigShl(Big(t[2]), v[1])>>) :
                    t \in {ShortDiv(BigShl(qr[2], k - v[1]), v[2][1])}})
         ELSE DivBits(qr, d, k)) :
        v \in {Once({(<<s, BigShr(d, s)>>) :
                     s \in {Once({((low - 1) * LimbBits
                                    + Min({b \in 0..(LimbBits - 1) : (d[low] \div 2^b) % 2 = 1})) :
                                  low \in {Min({i \in 1..Len(d) : d[i] # 0})}})}})}})

\* Round half to even: qr holds the leading bits of the quotient and the
\* remainder, d the divisor.
RoundQuotient(qr, d) ==
  Once({(LET guard == BigGeq(g, d)
             sticky == IF guard THEN g # d ELSE g # <<>>
         IN  IF guard /\ (sticky \/ LimbAt(qr[1], 1) % 2 = 1) THEN BigAdd(qr[1], <<1>>)
             ELSE qr[1]) :
        g \in {BigShl(qr[2], 1)}})

\* Scale n and d by powers of two until d <= n < 2d: <<n, d, ex>> with the
\* original n / d equal to (n / d) * 2^ex.
Normalise(n, d) ==
  Once({(Once({(IF BigGeq(w[1], w[2]) THEN <<w[1], w[2], v[1] - v[2]>>
                ELSE <<BigShl(w[1], 1), w[2], v[1] - v[2] - 1>>) :
               w \in {<<IF v[2] > v[1] THEN BigShl(n, v[2] - v[1]) ELSE n,
                        IF v[1] > v[2] THEN BigShl(d, v[1] - v[2]) ELSE d>>}})) :
        v \in {<<BitLen(n), BitLen(d)>>}})

\* The binary64 nearest to (n / d) * 2^e0 (round half to even) for naturals
\* n, d > 0: <<"inf">>, <<"zero">> or <<"finite", m, e>>.
RoundDiv(n, d, e0) ==
  Once({(LET ex == nz[3] + e0
             bits == IF ex >= MinExponent + MantissaBits - 1 THEN MantissaBits
                     ELSE ex - MinExponent + 1
         IN  IF ex > MaxExponent + MantissaBits - 1 THEN <<"inf">>
             ELSE IF bits < 0 THEN <<"zero">>
             ELSE IF bits = 0
             THEN IF nz[1] = nz[2] THEN <<"zero">> ELSE <<"finite", <<1>>, MinExponent>>
             ELSE Once({(IF m = BigShl(<<1>>, MantissaBits)
                         THEN IF ex = MaxExponent + MantissaBits - 1 THEN <<"inf">>
                              ELSE <<"finite", BigShl(<<1>>, MantissaBits - 1), ex - bits + 2>>
                         ELSE <<"finite", m, ex - bits + 1>>) :
                        m \in {RoundQuotient(Quotient(<<<<1>>, BigSub(nz[1], nz[2])>>,
                                                      nz[2], bits - 1), nz[2])}})) :
        nz \in {Normalise(n, d)}})

\* s without the characters of W at its two ends.
StripOf(s, W) ==
  LET keep == {k \in 1..Len(s) : s[k] \notin W}
  IN  IF keep = {} THEN <<>> ELSE SubSeq(s, Min(keep), Max(keep))

\* str.strip(): drop leading and trailing whitespace.
strip(s) == StripOf(s, Whitespace)

\* The whitespace float() drops at the two ends of its argument: the ASCII
\* blanks of the C locale and the Unicode whitespace beyond ASCII, but not the
\* separators U+001C to U+001F.
FloatSpace == Whitespace \ {"U+001C", "U+001D", "U+001E", "U+001F"}

DigitValues ==
  [c \in Digits |->
     (CHOOSE k \in 1..10 : \E r \in 1..Len(DecimalDigits) : DecimalDigits[r][k] = c) - 1]

DigitVal(c) == DigitValues[c]

\* The natural written by at most nine digits.
RECURSIVE DigitsInt(_)
DigitsInt(s) ==
  IF s = <<>> THEN 0
  ELSE 10 * DigitsInt(SubSeq(s, 1, Len(s) - 1)) + DigitVal(s[Len(s)])

\* The natural written by the digits of s.
RECURSIVE DigitsNat(_)
DigitsNat(s) ==
  IF Len(s) <= 9 THEN Big(DigitsInt(s))
  ELSE Once({(BigAdd(BigMul(DigitsNat(SubSeq(s, 1, h)), Pow10(Len(s) - h)),
                     DigitsNat(SubSeq(s, h + 1, Len(s))))) : h \in {Len(s) \div 2}})

\* s without its leading zeros.
Significant(s) ==
  LET nz == {k \in 1..Len(s) : DigitVal(s[k]) # 0}
  IN  IF nz = {} THEN <<>> ELSE SubSeq(s, Min(nz), Len(s))

IsSign(c) == c \in {"+", "-"}

\* An underscore may stand between two digits only.
UnderscoresOK(u) ==
  \A k \in 1..Len(u) :
    u[k] = "_" => k > 1 /\ k < Len(u) /\ u[k - 1] \in Digits /\ u[k + 1] \in Digits

\* "inf", "infinity" and "nan", in any case of the letters.
InfWord == << {"i", "I"}, {"n", "N"}, {"f", "F"} >>

InfinityWord == InfWord \o << {"i", "I"}, {"n", "N"}, {"i", "I"}, {"t", "T"}, {"y", "Y"} >>

NanWord == << {"n", "N"}, {"a", "A"}, {"n", "N"} >>

IsWord(b, w) == Len(b) = Len(w) /\ \A k \in 1..Len(b) : b[k] \in w[k]

\* Where the exponent of b begins: the place of its first "e" or "E", or
\* Len(b) + 1 when it has none.
ExponentAt(b) == Min({k \in 1..Len(b) : b[k] \in {"e", "E"}} \cup {Len(b) + 1})

\* Digits with at most one dot and at least one digit.
IsMantissa(m) ==
  /\ \A k \in 1..Len(m) : IsNumChar(m[k])
  /\ Count(m, ".") <= 1
  /\ \E k \in 1..Len(m) : m[k] \in Digits

\* An optional sign and at least one digit.
IsExponent(x) ==
  LET body == IF x # <<>> /\ IsSign(x[1]) THEN Tail(x) ELSE x
  IN  body # <<>> /\ \A k \in 1..Len(body) : body[k] \in Digits

\* The text without its underscores and its sign.
Unsigned(u) ==
  Once({(IF v # <<>> /\ IsSign(v[1]) THEN Tail(v) ELSE v) : v \in {SelectSeq(u, LAMBDA c : c # "_")}})

\* A text float() accepts once stripped: an optional sign, then "inf",
\* "infinity" or "nan", or a mantissa and an optional exponent.
IsDecimal(u) ==
  /\ UnderscoresOK(u)
  /\ LET b == Unsigned(u)
         x == ExponentAt(b)
     IN  \/ IsWord(b, InfWord) \/ IsWord(b, InfinityWord) \/ IsWord(b, NanWord)
         \/ /\ IsMantissa(SubSeq(b, 1, x - 1))
            /\ x <= Len(b) => IsExponent(SubSeq(b, x + 1, Len(b)))

\* An exponent beyond ExponentCap in size counts as ExponentCap: no text short
\* of ten million digits gives another float for it.
ExponentCap == 100000000

\* The value of an exponent.
ExponentVal(x) ==
  LET neg == x # <<>> /\ x[1] = "-"
      body == Significant(IF x # <<>> /\ IsSign(x[1]) THEN Tail(x) ELSE x)
      size == IF Len(body) > 8 THEN ExponentCap ELSE DigitsInt(body)
  IN  IF neg THEN -size ELSE size

\* The outcome of float() on a text that is no number: it raises ValueError.
ValueError ==
  [err |-> TRUE, sign |-> 1, zero |-> FALSE, inf |-> FALSE, nan |-> FALSE, m |-> <<>>, e |-> 0]

Float(sign, zero, m, e) ==
  [err |-> FALSE, sign |-> sign, zero |-> zero, inf |-> FALSE, nan |-> FALSE, m |-> m, e |-> e]

Infinity(sign) ==
  [err |-> FALSE, sign |-> sign, zero |-> FALSE, inf |-> TRUE, nan |-> FALSE, m |-> <<>>, e |-> 0]

NaN ==
  [err |-> FALSE, sign |-> 1, zero |-> FALSE, inf |-> FALSE, nan |-> TRUE, m |-> <<>>, e |-> 0]

Zero(sign) == Float(sign, TRUE, <<>>, 0)

\* The float of a rounded quotient.
Rounded(sign, r) ==
  Once({(IF v[1] = "inf" THEN Infinity(sign)
         ELSE IF v[1] = "zero" THEN Zero(sign)
         ELSE Float(sign, FALSE, v[2], v[3])) : v \in {r}})

\* The decimal a mantissa and exponent denote: the digits of the mantissa
\* without its leading zeros, times 10^exp.
Decimal(u) ==
  Once({(LET x == ExponentAt(b)
             mant == SubSeq(b, 1, x - 1)
             dot == {k \in 1..Len(mant) : mant[k] = "."}
             scale == IF dot = {} THEN 0 ELSE Len(mant) - Min(dot)
             digits == Significant(SelectSeq(mant, LAMBDA c : c # "."))
         IN  [sign |-> IF u[1] = "-" THEN -1 ELSE 1,
              digits |-> digits,
              exp |-> (IF x <= Len(b) THEN ExponentVal(SubSeq(b, x + 1, Len(b))) ELSE 0)
                        - scale]) : b \in {Unsigned(u)}})

\* Above 10^MaxDecimal every decimal is infinite as a float, below
\* 10^MinDecimal it is zero.
MaxDecimal == 309

MinDecimal == -324

\* The binary64 nearest to the decimal dec.
Nearest(dec) ==
  IF dec.digits = <<>> THEN Zero(dec.sign)
  ELSE IF Len(dec.digits) + dec.exp > MaxDecimal THEN Infinity(dec.sign)
  ELSE IF Len(dec.digits) + dec.exp <= MinDecimal THEN Zero(dec.sign)
  ELSE IF dec.exp >= 0
  THEN Rounded(dec.sign, RoundDiv(BigMul(DigitsNat(dec.digits), Pow5(dec.exp)), <<1>>, dec.exp))
  ELSE Rounded(dec.sign, RoundDiv(DigitsNat(dec.digits), Pow5(-dec.exp), dec.exp))

\* float(s) for a text s: ValueError, or the float the text denotes.
float(s) ==
  Once({(IF ~IsDecimal(u) THEN ValueError
         ELSE IF IsWord(Unsigned(u), NanWord) THEN NaN
         ELSE IF IsWord(Unsigned(u), InfWord) \/ IsWord(Unsigned(u), InfinityWord)
         THEN Infinity(IF u[1] = "-" THEN -1 ELSE 1)
         ELSE Once({(Nearest(dec)) : dec \in {Decimal(u)}})) : u \in {StripOf(s, FloatSpace)}})

\* x / y for floats, y not zero.
FloatDiv(x, y) ==
  Once({(IF v[1].nan \/ v[2].nan THEN NaN
         ELSE IF v[1].inf THEN IF v[2].inf THEN NaN ELSE Infinity(v[1].sign * v[2].sign)
         ELSE IF v[2].inf \/ v[1].zero THEN Zero(v[1].sign * v[2].sign)
         ELSE Rounded(v[1].sign * v[2].sign, RoundDiv(v[1].m, v[2].m, v[1].e - v[2].e))) :
        v \in {<<x, y>>}})

\* x <= y for floats: no NaN is below or above anything.
FloatLeq(x, y) ==
  LET PosLeq(a, b) ==
        IF b.inf THEN TRUE
        ELSE IF a.inf THEN FALSE
        ELSE a.e < b.e \/ (a.e = b.e /\ BigGeq(b.m, a.m))
  IN  IF x.nan \/ y.nan THEN FALSE
      ELSE IF x.zero THEN y.zero \/ y.sign = 1
      ELSE IF y.zero THEN x.sign = -1
      ELSE IF x.sign # y.sign THEN x.sign = -1
      ELSE IF x.sign = 1 THEN PosLeq(x, y) ELSE PosLeq(y, x)

\* x == y for floats (-0.0 == 0.0, nan != nan).
FloatEq(x, y) == FloatLeq(x, y) /\ FloatLeq(y, x)

\* A float literal of the source: num / 10^scale rounded to binary64.
Literal(num, scale) == Rounded(1, RoundDiv(Big(num), Pow5(scale), -scale))

(***************************************************************************)
(* Scores, in hundredths of a point.                                       *)
(***************************************************************************)
ExactFormatBonus == 300

MarkerBonus == 50

ExactAnswerScore == 300

StrippedAnswerScore == 150

Within10Score == 50

Within20Score == 25

WrongAnswerPenalty == 100

UnparseablePenalty == 50

NumberScore == 150

\* The band limits 0.9, 1.1, 0.8, 1.2 as the floats the literals denote.
Ratio09 == Literal(9, 1)

Ratio11 == Literal(11, 1)

Ratio08 == Literal(8, 1)

Ratio12 == Literal(12, 1)

(***************************************************************************)
(* The reward functions.  A call returns [raised, scores]: the exception   *)
(* that left the call ("none" when it returned) and the list returned.     *)
(***************************************************************************)
Returned(scores) == [raised |-> "none", scores |-> scores]

Raised(exc) == [raised |-> exc, scores |-> <<>>]

\* The score of one completion in match_format_exactly.
ExactScore(response) == IF FormatMatches(response) THEN ExactFormatBonus ELSE 0

match_format_exactly(completions) ==
  Returned([i \in 1..Len(completions) |-> ExactScore(completions[i])])

\* MarkerTerm with ">= 1" for "== 1".
MarkerTermAtLeastOnce(response, m) ==
  IF Count(response, m) >= 1 THEN MarkerBonus ELSE -MarkerBonus

\* MarkerTerm without the penalty.
MarkerTermNoPenalty(response, m) == IF Count(response, m) = 1 THEN MarkerBonus ELSE 0

\* One marker's term in match_format_approximately.
MarkerTerm(response, m) == IF Count(response, m) = 1 THEN MarkerBonus ELSE -MarkerBonus

ApproxScore(response) ==
  MarkerTerm(response, reasoning_start) + MarkerTerm(response, reasoning_end)
    + MarkerTerm(response, solution_start) + MarkerTerm(response, solution_end)

match_format_approximately(completions) ==
  Returned([i \in 1..Len(completions) |-> ApproxScore(completions[i])])

\* The if / elif / else on the ratio in check_answer.
BandOf(ratio) ==
  Once({(IF FloatLeq(Ratio09, r) /\ FloatLeq(r, Ratio11) THEN Within10Score
    ELSE IF FloatLeq(Ratio08, r) /\ FloatLeq(r, Ratio12) THEN Within20Score
    ELSE -WrongAnswerPenalty) : r \in {ratio}})

\* RatioScore with the penalty of a wrong number given in the except branch too.
RatioScoreOnePenalty(guess, true_answer) ==
  Once({(IF ga[1].err \/ ga[2].err \/ ga[2].zero THEN -WrongAnswerPenalty
    ELSE IF ga[1].zero THEN -WrongAnswerPenalty
    ELSE BandOf(FloatDiv(ga[1], ga[2]))) : ga \in {<<float(guess), float(true_answer)>>}})

\* RatioScore with a division by zero that gives an infinite ratio and does
\* not raise: the penalty of a wrong number.
RatioScoreInfinite(guess, true_answer) ==
  Once({(IF ga[1].err \/ ga[2].err THEN -UnparseablePenalty
    ELSE IF ga[2].zero THEN -WrongAnswerPenalty
    ELSE IF ga[1].zero THEN -WrongAnswerPenalty
    ELSE BandOf(FloatDiv(ga[1], ga[2]))) : ga \in {<<float(guess), float(true_answer)>>}})

\* The try block of check_answer: the score by the ratio of the two floats,
\* or the penalty of the bare except (ValueError of float(), ZeroDivisionError).
RatioScore(guess, true_answer) ==
  Once({(IF ga[1].err \/ ga[2].err THEN -UnparseablePenalty
    ELSE IF ga[2].zero THEN -UnparseablePenalty
    ELSE IF ga[1].zero THEN -WrongAnswerPenalty
    ELSE BandOf(FloatDiv(ga[1], ga[2]))) : ga \in {<<float(guess), float(true_answer)>>}})

\* true_answer.strip() on None, outside the try block: AttributeError leaves
\* check_answer.  It is reached when the guess is a text, which None never equals.
AnswerRaises(guess, true_answer) == guess # None /\ true_answer = None

\* AnswerScore with the penalty of the except branch for a missing guess.
AnswerScoreNonePenalty(guess, true_answer) ==
  IF guess = None THEN -UnparseablePenalty
  ELSE IF guess = true_answer THEN ExactAnswerScore
  ELSE IF strip(guess) = strip(true_answer) THEN StrippedAnswerScore
  ELSE RatioScore(guess, true_answer)

\* AnswerScore with the whitespace-insensitive comparison made first.
AnswerScoreStripFirst(guess, true_answer) ==
  IF guess = None THEN 0
  ELSE IF strip(guess) = strip(true_answer) THEN ExactAnswerScore
  ELSE RatioScore(guess, true_answer)

\* The body of the loop of check_answer for one (guess, true_answer) pair
\* that does not raise.
AnswerScore(guess, true_answer) ==
  IF guess = None THEN 0
  ELSE IF guess = true_answer THEN ExactAnswerScore
  ELSE IF strip(guess) = strip(true_answer) THEN StrippedAnswerScore
  ELSE RatioScore(guess, true_answer)

MinLen(a, b) == IF Len(a) <= Len(b) THEN Len(a) ELSE Len(b)

check_answer(completions, answer) ==
  LET extracted_responses ==
        [i \in 1..Len(completions) |-> match_format_search(completions[i])]
      n == MinLen(extracted_responses, answer)
  IN  IF \E i \in 1..n : AnswerRaises(extracted_responses[i], answer[i])
      THEN Raised("AttributeError")
      ELSE Returned([i \in 1..n |-> AnswerScore(extracted_responses[i], answer[i])])

(***************************************************************************)
(* match_numbers: SS.*?([\d\.]{1,}) with MULTILINE | DOTALL.               *)
(***************************************************************************)
\* Positions of a numeric character after a solution-start at r.
NumStarts(s, r) == {k \in (r + 1)..Len(s) : IsNumChar(s[k])}

\* Solution-start markers from which the pattern matches.
NumberMatchStarts(s) ==
  {r \in 1..Len(s) : s[r] = solution_start /\ NumStarts(s, r) # {}}

\* RunEnd for a lazy run [\d\.]{1,}?: one character.
RunEndLazy(s, k) == k

\* The end of the greedy run [\d\.]{1,} that starts at k.
RunEnd(s, k) ==
  CHOOSE j \in k..Len(s) :
    /\ \A i \in k..j : IsNumChar(s[i])
    /\ (j = Len(s) \/ ~IsNumChar(s[j + 1]))

\* match_numbers.search(s): group(1) or None.
match_numbers_search(s) ==
  IF NumberMatchStarts(s) = {} THEN None
  ELSE LET r == Min(NumberMatchStarts(s))
           k == Min(NumStarts(s, r))
       IN  SubSeq(s, k, RunEnd(s, k))

\* NumberScore1 with the penalty of check_answer for a text that is no number.
NumberScorePenalty(guess, true_answer) ==
  IF guess = None THEN 0
  ELSE IF true_answer = None THEN 0
  ELSE Once({(IF ag[1].err \/ ag[2].err THEN -UnparseablePenalty
         ELSE IF FloatEq(ag[2], ag[1]) THEN NumberScore ELSE 0) :
             ag \in {<<float(strip(true_answer)), float(strip(guess))>>}})

\* The body of the loop of check_numbers for one (guess, true_answer) pair.
NumberScore1(guess, true_answer) ==
  IF guess = None THEN 0
  ELSE IF true_answer = None THEN 0
  ELSE Once({(IF ag[1].err \/ ag[2].err THEN 0
         ELSE IF FloatEq(ag[2], ag[1]) THEN NumberScore ELSE 0) : ag \in {<<float(strip(true_answer)), float(strip(guess))>>}})

\* A dict: the set of its <<key, value>> pairs.
HasKey(dict, key) == \E kv \in dict : kv[1] = key

Item(dict, key) == (CHOOSE kv \in dict : kv[1] = key)[2]

\* kargs: the keyword arguments of the call.  question is the list of the
\* questions of the batch (each question one token), or None.
check_numbers(completions, answer, kargs) ==
  LET extracted_responses ==
        [i \in 1..Len(completions) |-> match_numbers_search(completions[i])]
      n == MinLen(extracted_responses, answer)
  IN  IF ~HasKey(kargs, "question") THEN Raised("KeyError")
      ELSE IF Item(kargs, "question") = None THEN Raised("TypeError")
      ELSE IF Item(kargs, "question") = <<>> THEN Raised("IndexError")
      ELSE IF completions = <<>> \/ answer = <<>> THEN Raised("IndexError")
      ELSE Returned([i \in 1..n |-> NumberScore1(extracted_responses[i], answer[i])])

(***************************************************************************)
(* The state: the arguments of a call, and what the last call left.        *)
(***************************************************************************)
VARIABLES
  completions,   \* the batch of generated texts
  answer,        \* the ground-truth answers, one per completion (a text or None)
  kargs,         \* the other keyword arguments of the call: pairs <<name, value>>
  called,        \* the reward function called last ("none" before any call)
  extracted,     \* extracted_responses of the last call (<<>> if it has none)
  raised,        \* the exception that left the last call ("none" if it returned)
  scores,        \* the list the last call returned
  notebook,      \* the notebook that is run: "grpo" or "qlora"
  pc,            \* the place in Program(notebook) of the statement to run next
  names,         \* the global names of the kernel: pairs <<name, object>>
  disk,          \* the checkpoints on disk
  error,         \* the exception that stopped the run ("none" while it runs)
  trainer        \* the trainer made last: its step, its batch, the steps it keeps

vars ==
  <<completions, answer, kargs, called, extracted, raised, scores,
    notebook, pc, names, disk, error, trainer>>

\* All texts over alphabet A of at most n tokens.
Texts(A, n) == UNION {[1..k -> A] : k \in 0..n}

(***************************************************************************)
(* The run of a notebook from its first cell to its last: the statements   *)
(* of its cells, from top to bottom.  An object is [kind, from]: what it   *)
(* is and where its weights come from; an object made from keyword         *)
(* arguments has a field for each of them.                                 *)
(***************************************************************************)
INTERMEDIATE_CKPT_DIR == "/content/intermediate_ckpt/"

CKPT_DIR == "/content/ckpts/"

PROFILING_DIR == "/content/profiling/"

\* os.path.join
join(dir, leaf) == <<dir, leaf>>

Object(kind, from) == [kind |-> kind, from |-> from]

NoObject == Object("none", "none")

\* A path written as os.path.join(NAME, leaf): the name and the leaf.
NoPath == <<>>

\* The arguments of a call that are names: the parameter and the name given.
NoArgs == <<>>

\* A statement: what it does, the names it binds (or deletes), the names it
\* reads, the object it makes, the path it is given, the names it passes on.
Statement(op, targets, uses, obj, path, args) ==
  [op |-> op, targets |-> targets, uses |-> uses, obj |-> obj, path |-> path,
   args |-> args]

Assign(name, uses, kind, from) ==
  << Statement("assign", {name}, uses, Object(kind, from), NoPath, NoArgs) >>

\* name = Class(..., parameter=NAME, ...)
Make(op, name, uses, obj, args) == << Statement(op, {name}, uses, obj, NoPath, args) >>

Define(name) ==
  << Statement("def", {name}, {}, Object("function", "none"), NoPath, NoArgs) >>

\* An expression statement (nnx.display(...), print(...)) reading names.
Display(uses) == << Statement("display", {}, uses, NoObject, NoPath, NoArgs) >>

\* INTERMEDIATE_CKPT_DIR = "/content/intermediate_ckpt/"; CKPT_DIR = "/content/ckpts/"
Directories ==
  Assign("INTERMEDIATE_CKPT_DIR", {}, "dir", INTERMEDIATE_CKPT_DIR)
    \o Assign("CKPT_DIR", {}, "dir", CKPT_DIR)

\* kaggle_ckpt_path = kagglehub.model_download(...)
Download == Assign("kaggle_ckpt_path", {}, "dir", "kaggle")

\* The cell that loads the Kaggle weights and saves them as a local checkpoint.
SaveCell ==
  Assign("params", {"kaggle_ckpt_path"}, "params", "kaggle")
    \o Assign("gemma", {"params"}, "model", "kaggle")
    \o Assign("checkpointer", {}, "checkpointer", "none")
    \o Assign("state", {"gemma"}, "state", "kaggle")
    \o << Statement("save", {}, {"checkpointer", "state", "INTERMEDIATE_CKPT_DIR"}, NoObject,
                    <<"INTERMEDIATE_CKPT_DIR", "state">>, NoArgs) >>

\* time.sleep(60)
SleepCell == << Statement("sleep", {}, {}, NoObject, NoPath, NoArgs) >>

\* DeleteCell of a notebook that keeps the intermediate model in memory.
NoDeleteCell == << Statement("collect", {}, {}, NoObject, NoPath, NoArgs) >>

\* del params; del gemma; del state; gc.collect()
DeleteCell ==
  << Statement("del", {"params"}, {"params"}, NoObject, NoPath, NoArgs),
     Statement("del", {"gemma"}, {"gemma"}, NoObject, NoPath, NoArgs),
     Statement("del", {"state"}, {"state"}, NoObject, NoPath, NoArgs),
     Statement("collect", {}, {}, NoObject, NoPath, NoArgs) >>

\* gemma, mesh = loader(ckpt_path=os.path.join(INTERMEDIATE_CKPT_DIR, "state"));
\* nnx.display(gemma)
RestoreCell(loader) ==
  << Statement("restore", {"gemma", "mesh"}, {loader, "INTERMEDIATE_CKPT_DIR"}, NoObject,
               <<"INTERMEDIATE_CKPT_DIR", "state">>, NoArgs) >>
    \o Display({"gemma"})

\* lora_gemma = get_lora_model(gemma, mesh=mesh); nnx.display(lora_gemma)
LoraCell ==
  << Statement("lora", {"lora_gemma"}, {"get_lora_model", "gemma", "mesh"}, NoObject,
               NoPath, NoArgs) >>
    \o Display({"lora_gemma"})

\* gemma_tokenizer = GemmaTokenizer(...); sampler = Sampler(transformer=model, ...)
Sampler(model) ==
  Assign("gemma_tokenizer", {"kaggle_ckpt_path"}, "tokenizer", "kaggle")
    \o Assign("sampler", {model, "gemma_tokenizer"}, "sampler", "none")

\* The hyperparameters of the GRPO demo.
NUM_BATCHES == 20

NUM_EPOCHS == 1

NUM_ITERATIONS == 4

EVAL_EVERY_N_STEPS == 1

MAX_STEPS == 40 * NUM_EPOCHS

SAVE_INTERVAL_STEPS == 1000

MAX_TO_KEEP == 1

\* The batches of dataset: NUM_BATCHES batches, repeated NUM_EPOCHS times.
TotalBatches == NUM_BATCHES * NUM_EPOCHS

\* ocp.CheckpointManagerOptions(save_interval_steps=..., max_to_keep=...)
CheckpointManagerOptions(save_interval_steps, max_to_keep) ==
  [kind |-> "options", from |-> "none",
   save_interval_steps |-> save_interval_steps, max_to_keep |-> max_to_keep]

\* peft_trainer.TrainingConfig(eval_every_n_steps=..., max_steps=...)
TrainingConfig(eval_every_n_steps, max_steps) ==
  [kind |-> "options", from |-> "none",
   eval_every_n_steps |-> eval_every_n_steps, max_steps |-> max_steps]

\* GrpoTrainingConfig(num_iterations=..., eval_every_n_steps=..., max_steps=...)
GrpoTrainingConfig(num_iterations, eval_every_n_steps, max_steps) ==
  [kind |-> "options", from |-> "none", num_iterations |-> num_iterations,
   eval_every_n_steps |-> eval_every_n_steps, max_steps |-> max_steps]

\* with mesh: grpo_trainer.train(dataset)
TrainCell ==
  << Statement("train", {}, {"mesh", "grpo_trainer", "dataset"}, NoObject, NoPath,
               [self |-> "grpo_trainer", train_ds |-> "dataset"]) >>

\* The GRPO demo from its directories to the trainer.
GrpoProgram ==
  Directories
    \o Define("unbatched_generate") \o Define("extract_hash_answer") \o Define("get_dataset")
    \o Make("assign", "dataset", {"get_dataset"},
            [kind |-> "dataset", from |-> "none", batches |-> TotalBatches], NoArgs)
    \o Download \o SaveCell \o SleepCell \o DeleteCell
    \o Define("get_ref_model") \o Define("get_lora_model")
    \o RestoreCell("get_ref_model") \o LoraCell
    \o Assign("match_format", {}, "pattern", "none")
    \o Define("match_format_exactly") \o Define("match_format_approximately")
    \o Define("check_answer")
    \o Assign("match_numbers", {}, "pattern", "none")
    \o Define("check_numbers")
    \o Sampler("lora_gemma")
    \o Assign("question", {}, "text", "none")
    \o Display({"unbatched_generate", "sampler", "question"})
    \o Make("assign", "checkpointing_options", {},
            CheckpointManagerOptions(SAVE_INTERVAL_STEPS, MAX_TO_KEEP), NoArgs)
    \o Assign("metrics_logging_options", {}, "options", "none")
    \o Make("assign", "training_config",
            {"metrics_logging_options", "CKPT_DIR", "checkpointing_options"},
            GrpoTrainingConfig(NUM_ITERATIONS, EVAL_EVERY_N_STEPS, MAX_STEPS),
            [metrics_logging_options |-> "metrics_logging_options",
             checkpoint_root_directory |-> "CKPT_DIR",
             checkpointing_options |-> "checkpointing_options"])
    \o Sampler("lora_gemma")
    \o Make("trainer", "grpo_trainer",
            {"lora_gemma", "gemma", "match_format_exactly", "match_format_approximately",
             "check_answer", "check_numbers", "sampler", "training_config"},
            Object("trainer", "none"),
            [model |-> "lora_gemma", ref_model |-> "gemma", sampler |-> "sampler",
             training_config |-> "training_config"])

\* The QLoRA demo from its directories to its last cell.  Its MAX_STEPS is 100
\* and its EVAL_EVERY_N_STEPS is 20.
QloraProgram ==
  Directories
    \o Assign("PROFILING_DIR", {}, "dir", PROFILING_DIR)
    \o Download \o SaveCell \o SleepCell \o DeleteCell
    \o Define("get_base_model") \o RestoreCell("get_base_model")
    \o Sampler("gemma")
    \o Assign("input_batch", {}, "text", "none")
    \o Assign("out_data", {"sampler", "input_batch"}, "text", "none")
    \o Display({"input_batch", "out_data"})
    \o Define("get_lora_model") \o LoraCell
    \o << Statement("assign", {"train_ds", "validation_ds"}, {"gemma_tokenizer"},
                    Object("dataset", "none"), NoPath, NoArgs) >>
    \o Define("gen_model_input_fn")
    \o Assign("logging_option", {}, "options", "none")
    \o Make("assign", "training_config", {"logging_option"}, TrainingConfig(20, 100),
            [metrics_logging_options |-> "logging_option"])
    \o Make("trainer", "trainer", {"gemma", "training_config"}, Object("trainer", "none"),
            [model |-> "gemma", training_config |-> "training_config"])
    \o Make("method", "trainer", {"trainer", "gen_model_input_fn"}, NoObject,
            [self |-> "trainer", gen_model_input_fn |-> "gen_model_input_fn"])
    \o << Statement("train", {},
                    {"PROFILING_DIR", "mesh", "trainer", "train_ds", "validation_ds"},
                    NoObject, NoPath,
                    [self |-> "trainer", train_ds |-> "train_ds",
                     eval_ds |-> "validation_ds"]) >>
    \o Make("assign", "training_config", {"CKPT_DIR"}, TrainingConfig(20, 100),
            [checkpoint_root_directory |-> "CKPT_DIR"])
    \o Make("trainer", "lora_trainer",
            {"lora_gemma", "training_config", "gen_model_input_fn"},
            Object("trainer", "none"),
            [model |-> "lora_gemma", training_config |-> "training_config",
             gen_model_input_fn |-> "gen_model_input_fn"])
    \o << Statement("train", {},
                    {"PROFILING_DIR", "mesh", "lora_trainer", "train_ds", "validation_ds"},
                    NoObject, NoPath,
                    [self |-> "lora_trainer", train_ds |-> "train_ds",
                     eval_ds |-> "validation_ds"]) >>
    \o Sampler("lora_gemma")
    \o Assign("input_batch", {}, "text", "none")
    \o Assign("out_data", {"sampler", "input_batch"}, "text", "none")
    \o Display({"input_batch", "out_data"})

\* trained_ckpt_path = os.path.join(CKPT_DIR, "120", "model_params");
\* trained_lora_params = checkpointer.restore(trained_ckpt_path, target=abs_params);
\* nnx.update(lora_gemma, ...)
GenerateCell ==
  Assign("trained_ckpt_path", {"CKPT_DIR"}, "path", "none")
    \o Assign("abs_params", {"lora_gemma"}, "shapes", "none")
    \o Assign("checkpointer", {}, "checkpointer", "none")
    \o << Statement("load", {"trained_lora_params"},
                    {"checkpointer", "trained_ckpt_path", "abs_params"}, NoObject,
                    <<"CKPT_DIR", "120", "model_params">>, NoArgs) >>
    \o Display({"lora_gemma", "trained_lora_params"})

\* The GRPO demo from its directories to its last cell.
GrpoRun ==
  GrpoProgram
    \o TrainCell
    \o GenerateCell
    \o Sampler("lora_gemma")
    \o Assign("question", {}, "text", "none")
    \o Display({"unbatched_generate", "sampler", "question"})

Notebooks == {"grpo", "qlora"}

Program(nb) == IF nb = "grpo" THEN GrpoRun ELSE QloraProgram

Bound(ns, n) == \E b \in ns : b[1] = n

Value(ns, n) == (CHOOSE b \in ns : b[1] = n)[2]

Unbind(ns, targets) == {b \in ns : b[1] \notin targets}

Bind(ns, targets, obj) == Unbind(ns, targets) \cup {<<n, obj>> : n \in targets}

\* A checkpoint on disk: its path, whether the write is finished, the run that
\* wrote it and the object written.
Checkpoint(path, status, run, content) ==
  [path |-> path, status |-> status, run |-> run, content |-> content]

At(d, path) == {c \in d : c.path = path}

\* A fresh runtime, or one in which an earlier run has left its checkpoint.
Disks ==
  { {},
    {Checkpoint(join(INTERMEDIATE_CKPT_DIR, "state"), "committed", "earlier",
                Object("state", "kaggle"))} }

Function == Object("function", "none")

\* The trainer as GrpoTrainer(...) or PeftTrainer(...) makes it: no step done,
\* no batch taken, no checkpoint kept.
NewTrainer == [step |-> 0, batch |-> 0, kept |-> <<>>]

\* The run during training: the statements above are done.
InTraining ==
  /\ notebook = "grpo"
  /\ pc = Len(GrpoProgram) + 1
  /\ names =
       LET lora_gemma == Object("model", "checkpoint of this run")
           checkpointing_options ==
             CheckpointManagerOptions(SAVE_INTERVAL_STEPS, MAX_TO_KEEP)
           training_config ==
             [kind |-> "options", from |-> "none", num_iterations |-> NUM_ITERATIONS,
              eval_every_n_steps |-> EVAL_EVERY_N_STEPS, max_steps |-> MAX_STEPS,
              metrics_logging_options |-> Object("options", "none"),
              checkpoint_root_directory |-> Object("dir", CKPT_DIR),
              checkpointing_options |-> checkpointing_options]
       IN
       { <<"INTERMEDIATE_CKPT_DIR", Object("dir", INTERMEDIATE_CKPT_DIR)>>,
         <<"CKPT_DIR", Object("dir", CKPT_DIR)>>,
         <<"unbatched_generate", Function>>, <<"extract_hash_answer", Function>>,
         <<"get_dataset", Function>>,
         <<"dataset", [kind |-> "dataset", from |-> "none", batches |-> TotalBatches]>>,
         <<"kaggle_ckpt_path", Object("dir", "kaggle")>>,
         <<"checkpointer", Object("checkpointer", "none")>>,
         <<"get_ref_model", Function>>, <<"get_lora_model", Function>>,
         <<"gemma", Object("model", "checkpoint of this run")>>,
         <<"mesh", Object("mesh", "none")>>,
         <<"lora_gemma", lora_gemma>>,
         <<"match_format", Object("pattern", "none")>>,
         <<"match_format_exactly", Function>>, <<"match_format_approximately", Function>>,
         <<"check_answer", Function>>,
         <<"match_numbers", Object("pattern", "none")>>,
         <<"check_numbers", Function>>,
         <<"gemma_tokenizer", Object("tokenizer", "kaggle")>>,
         <<"sampler", Object("sampler", "none")>>,
         <<"question", Object("text", "none")>>,
         <<"checkpointing_options", checkpointing_options>>,
         <<"metrics_logging_options", Object("options", "none")>>,
         <<"training_config", training_config>>,
         <<"grpo_trainer",
           [kind |-> "trainer", from |-> "none", model |-> lora_gemma,
            ref_model |-> Object("model", "checkpoint of this run"),
            sampler |-> Object("sampler", "none"),
            training_config |-> training_config]>> }
  /\ disk = {Checkpoint(join(INTERMEDIATE_CKPT_DIR, "state"), "committed", "this",
                        Object("state", "kaggle"))}
  /\ error = "none"
  /\ trainer = NewTrainer

Run == <<notebook, pc, names, disk, error, trainer>>

(***************************************************************************)
(* Inputs of the format checks: every short text over the markers, a       *)
(* letter, a blank and a newline, the texts laid out as the tagged         *)
(* structure, with each part varied (the whitespace around it of every     *)
(* kind: tab, carriage return, separators, no-break space, wide spaces),   *)
(* and two whole blocks in a row.                                          *)
(***************************************************************************)
MaxLen == 5

FormatAlphabet == Markers \cup {"a", " ", "\n"}

\* What may stand before the reasoning-start and after the solution-end marker.
Pads ==
  { <<>>, <<" ">>, <<"\n">>, <<"a", "\n">>, <<"\n", "a">>, <<"a", " ">>,
    <<"\t", "\r">>, <<"U+000B", "\f">>, <<"U+001C", "U+0085">>, <<"U+00A0", "U+3000">> }

\* What may stand between two markers: nothing or one token.
Inner == Texts(FormatAlphabet, 1)

Layout(lead, reasoning, mid, solution, trail) ==
  lead \o <<reasoning_start>> \o reasoning \o <<reasoning_end>> \o mid
    \o <<solution_start>> \o solution \o <<solution_end>> \o trail

LaidOut ==
  {Layout(l, x, m, y, t) : l \in Pads, x \in Inner, m \in Inner, y \in Inner, t \in Pads}

Block == Layout(<<>>, <<"a">>, <<>>, <<"a">>, <<>>)

TwoBlocks == {Block \o sep \o Block : sep \in {<<>>, <<" ">>, <<"\n">>}}

FormatTexts == Texts(FormatAlphabet, MaxLen) \cup LaidOut \cup TwoBlocks

\* The keyword arguments the trainer passes with a batch: the question of each
\* completion.
Keywords(batch) == {<<"question", [i \in 1..Len(batch) |-> "q"]>>}

NoCall ==
  /\ called = "none"
  /\ extracted = <<>>
  /\ raised = "none"
  /\ scores = <<>>

Init ==
  /\ \E c \in FormatTexts : completions = <<c>>
  /\ answer = << <<"1">> >>
  /\ kargs = Keywords(completions)
  /\ NoCall
  /\ InTraining

(***************************************************************************)
(* Inputs of the answer check: a tagged structure around every short       *)
(* guess over digits, a dot, a sign, a blank and a letter, and around the  *)
(* other ways to write a number (and the same text with the solution-end   *)
(* marker missing), against ground truths of every kind: integers,         *)
(* decimals, zero, negative, padded, no number, None.                      *)
(***************************************************************************)
MaxGuessLen == 3

GuessAlphabet == {"0", "1", "9", ".", "-", " ", "a"}

\* Numbers written with a sign, an exponent, an underscore, digits of other
\* scripts, whitespace of other kinds, ten and more digits, the infinities and
\* NaN, numbers that round to zero or to infinity, and texts close to these
\* that are no numbers.
Written ==
  { <<"+", "1">>, <<"1", "e", "1">>, <<"1", "E", "-", "1">>, <<"1", "_", "0">>,
    <<"U+0661">>, <<"U+0969", ".", "U+FF10">>, <<"\t", "1">>, <<"1", "U+00A0">>,
    <<"U+001C", "1">>,
    <<"2", "1", "4", "7", "4", "8", "3", "6", "4", "8">>,
    <<"9", "9", "9", "9", "9", "9", "9", "9", "9", "9">>,
    <<"0", ".", "0", "0", "0", "0", "0", "0", "0", "0", "0", "1">>,
    <<"i", "n", "f">>, <<"-", "I", "n", "f", "i", "n", "i", "t", "y">>, <<"N", "a", "N">>,
    <<"1", "e", "-", "4", "0", "0">>, <<"1", "e", "3", "0", "9">>,
    <<"1", "e">>, <<"_", "1">>, <<"+", " ", "1">>, <<"i", "n", "f", "i">> }

\* Those of them that stand as ground truths.
WrittenTruths ==
  { <<"+", "1">>, <<"1", "e", "1">>, <<"U+0661">>, <<"U+001C", "1">>,
    <<"i", "n", "f">>, <<"N", "a", "N">>, <<"1", "e", "-", "4", "0", "0">> }

Guesses == Texts(GuessAlphabet, MaxGuessLen) \cup Written

Answers ==
  { <<"1">>, <<"9">>, <<"0">>, <<"1", "0">>, <<"1", "1">>, <<".", "1">>, <<".", "9">>,
    <<"1", ".">>, <<"0", ".">>, <<"-", "1">>, <<"-", "9">>, <<" ", "1">>, <<"1", " ">>,
    <<".">>, <<"a">>, <<" ">>, <<>>, None } \cup WrittenTruths

Tagged(guess) == Layout(<<>>, <<"a">>, <<>>, guess, <<>>)

Unclosed(guess) == <<reasoning_start, "a", reasoning_end, solution_start>> \o guess

InitAnswer ==
  /\ \E g \in Guesses : completions = <<Tagged(g)>> \/ completions = <<Unclosed(g)>>
  /\ \E a \in Answers : answer = <<a>>
  /\ kargs = Keywords(completions)
  /\ NoCall
  /\ InTraining

(***************************************************************************)
(* Inputs of the number check: every short text over the solution markers, *)
(* two digits, a dot, a letter and a newline, the other ways to write a    *)
(* number after the solution-start marker, and a number after a closed     *)
(* solution, against ground truths of every kind.                          *)
(***************************************************************************)
MaxNumLen == 3

NumberAlphabet == {solution_start, solution_end, "0", "1", ".", "a", "\n"}

NumberAnswers ==
  { <<"1">>, <<"0">>, <<"1", "0">>, <<"1", "1">>, <<"0", "1">>, <<"1", ".">>, <<".", "1">>,
    <<"1", ".", "0">>, <<"1", ".", "1">>, <<" ", "1">>, <<"-", "1">>, <<"1", ",", "0">>,
    <<".">>, <<"a">>, <<>>, None } \cup WrittenTruths

NumberTexts ==
  Texts(NumberAlphabet, MaxNumLen) \cup {<<solution_start>> \o w : w \in Written}
    \cup {<<solution_start, "a", solution_end, "1">>, <<solution_start, "a", "1", ".", "0">>}

InitNumbers ==
  /\ \E c \in NumberTexts : completions = <<c>>
  /\ \E a \in NumberAnswers : answer = <<a>>
  /\ kargs = Keywords(completions)
  /\ NoCall
  /\ InTraining

(***************************************************************************)
(* Pairs of completions that differ in how often each marker occurs: each  *)
(* marker from zero to MaxRepeat times, in the order of the layout.        *)
(***************************************************************************)
MaxRepeat == 2

Repeat(m, n) == [i \in 1..n |-> m]

MarkerTexts ==
  { Repeat(reasoning_start, i) \o <<"a">> \o Repeat(reasoning_end, j)
      \o Repeat(solution_start, k) \o <<"1">> \o Repeat(solution_end, l) :
    i \in 0..MaxRepeat, j \in 0..MaxRepeat, k \in 0..MaxRepeat, l \in 0..MaxRepeat }

InitPair ==
  /\ \E c \in MarkerTexts, d \in MarkerTexts : completions = <<c, d>>
  /\ answer = << <<"1">>, <<"1">> >>
  /\ kargs = Keywords(completions)
  /\ NoCall
  /\ InTraining

(***************************************************************************)
(* Batches: up to MaxBatch completions, each with its ground truth.        *)
(***************************************************************************)
MaxBatch == 2

BatchTexts ==
  { Tagged(<<"1">>), Tagged(<<"\t", "1">>), Tagged(<<"U+0669">>), Tagged(<<"a">>),
    Tagged(<<"1", solution_end>>), Unclosed(<<"1">>), <<solution_start, "a", "1">>, <<>>,
    <<solution_start, ".", "1", ".">> }

BatchAnswers == { <<"1">>, <<"\t", "1", "e", "1">>, <<"a">>, None }

InitBatch ==
  /\ \E n \in 1..MaxBatch :
        /\ completions \in [1..n -> BatchTexts]
        /\ answer \in [1..n -> BatchAnswers]
  /\ kargs = Keywords(completions)
  /\ NoCall
  /\ InTraining

(***************************************************************************)
(* The calls.  The trainer calls the reward functions on the batch in any  *)
(* order and any number of times, taking the list a call returns before    *)
(* the next call; no call changes its arguments.                           *)
(***************************************************************************)
Arguments == <<completions, answer, kargs>>

MatchFormatExactly ==
  LET res == match_format_exactly(completions)
  IN  /\ called = "none"
      /\ called' = "match_format_exactly"
      /\ extracted' = <<>>
      /\ raised' = res.raised
      /\ scores' = res.scores
      /\ UNCHANGED <<Arguments, Run>>

MatchFormatApproximately ==
  LET res == match_format_approximately(completions)
  IN  /\ called = "none"
      /\ called' = "match_format_approximately"
      /\ extracted' = <<>>
      /\ raised' = res.raised
      /\ scores' = res.scores
      /\ UNCHANGED <<Arguments, Run>>

CheckAnswer ==
  LET res == check_answer(completions, answer)
  IN  /\ called = "none"
      /\ called' = "check_answer"
      /\ extracted' = [i \in 1..Len(completions) |-> match_format_search(completions[i])]
      /\ raised' = res.raised
      /\ scores' = res.scores
      /\ UNCHANGED <<Arguments, Run>>

CheckNumbers ==
  LET res == check_numbers(completions, answer, kargs)
  IN  /\ called = "none"
      /\ called' = "check_numbers"
      /\ extracted' = IF HasKey(kargs, "question")
                      THEN [i \in 1..Len(completions) |-> match_numbers_search(completions[i])]
                      ELSE <<>>
      /\ raised' = res.raised
      /\ scores' = res.scores
      /\ UNCHANGED <<Arguments, Run>>

\* The caller has taken the result (or the exception); the locals are gone.
Return ==
  /\ called # "none"
  /\ called' = "none"
  /\ extracted' = <<>>
  /\ raised' = "none"
  /\ scores' = <<>>
  /\ UNCHANGED <<Arguments, Run>>

Next ==
  \/ MatchFormatExactly
  \/ MatchFormatApproximately
  \/ CheckAnswer
  \/ CheckNumbers
  \/ Return

Spec == Init /\ [][Next]_vars

SpecAnswer == InitAnswer /\ [][Next]_vars

SpecNumbers == InitNumbers /\ [][Next]_vars

SpecPair == InitPair /\ [][Next]_vars

SpecBatch == InitBatch /\ [][Next]_vars

(***************************************************************************)
(* The run of the notebook: one statement after the other, until a         *)
(* statement raises.  StandardCheckpointer.save returns while the write    *)
(* goes on in the background; the checkpoint can be restored once the      *)
(* write is finished.                                                      *)
(***************************************************************************)
Calls == <<completions, answer, kargs, called, extracted, raised, scores>>

Current == Program(notebook)[pc]

Running(op) ==
  /\ error = "none"
  /\ pc \in 1..Len(Program(notebook))
  /\ Current.op = op

Missing(stmt) == \E n \in stmt.uses : ~Bound(names, n)

\* The path a statement is given, with the directory its name stands for now.
PathOf(stmt) == join(Value(names, stmt.path[1]).from, stmt.path[2])

\* The statement raised: the run stops there.
Stop(exc) ==
  /\ error' = exc
  /\ UNCHANGED <<notebook, pc, names, disk, trainer>>

\* The statement is done.
Done(ns, d) ==
  /\ pc' = pc + 1
  /\ names' = ns
  /\ disk' = d
  /\ UNCHANGED <<notebook, error, trainer>>

\* The object a call makes of obj: each parameter that is given a name has the
\* object the name refers to now.
Given(obj, args) ==
  [k \in DOMAIN obj \cup DOMAIN args |->
     IF k \in DOMAIN args THEN Value(names, args[k]) ELSE obj[k]]

RunAssign ==
  /\ Running("assign")
  /\ IF Missing(Current) THEN Stop("NameError")
     ELSE Done(Bind(names, Current.targets, Given(Current.obj, Current.args)), disk)
  /\ UNCHANGED Calls

\* grpo_trainer = GrpoTrainer(..., training_config=training_config);
\* trainer = peft_trainer.PeftTrainer(gemma, ..., training_config): a trainer
\* that has done no step, with the model and the configuration it is given.
RunTrainer ==
  /\ Running("trainer")
  /\ IF Missing(Current) THEN Stop("NameError")
     ELSE /\ pc' = pc + 1
          /\ names' = Bind(names, Current.targets, Given(Current.obj, Current.args))
          /\ trainer' = NewTrainer
          /\ UNCHANGED <<notebook, disk, error>>
  /\ UNCHANGED Calls

\* trainer = trainer.with_gen_model_input_fn(gen_model_input_fn): the method
\* returns the trainer it is called on, with the function it is given.
RunMethod ==
  /\ Running("method")
  /\ IF Missing(Current) THEN Stop("NameError")
     ELSE Done(Bind(names, Current.targets,
                    Given(Value(names, Current.args.self),
                          [k \in DOMAIN Current.args \ {"self"} |-> Current.args[k]])),
               disk)
  /\ UNCHANGED Calls

RunDef ==
  /\ Running("def")
  /\ Done(Bind(names, Current.targets, Current.obj), disk)
  /\ UNCHANGED Calls

\* checkpointer.save(path, state): the library refuses a destination that
\* exists, or replaces it when told to force; the write of the state as it is
\* now begins.
RunSave ==
  /\ Running("save")
  /\ LET written == Checkpoint(PathOf(Current), "writing", "this", Value(names, "state"))
     IN  IF Missing(Current) THEN Stop("NameError")
         ELSE IF At(disk, PathOf(Current)) # {}
         THEN \/ Stop("ValueError")
              \/ Done(names, (disk \ At(disk, PathOf(Current))) \cup {written})
         ELSE Done(names, disk \cup {written})
  /\ UNCHANGED Calls

\* The background write of a checkpoint finishes.
Commit ==
  /\ \E c \in disk :
       /\ c.status = "writing"
       /\ disk' = (disk \ {c}) \cup {[c EXCEPT !.status = "committed"]}
  /\ UNCHANGED <<notebook, pc, names, error, trainer>>
  /\ UNCHANGED Calls

RunSleep ==
  /\ Running("sleep")
  /\ Done(names, disk)
  /\ UNCHANGED Calls

RunDel ==
  /\ Running("del")
  /\ IF Missing(Current) THEN Stop("NameError")
     ELSE Done(Unbind(names, Current.targets), disk)
  /\ UNCHANGED Calls

\* gc.collect(): the objects no name refers to are freed; the names stay.
RunCollect ==
  /\ Running("collect")
  /\ Done(names, disk)
  /\ UNCHANGED Calls

\* Where the weights of a model restored from checkpoint c come from.
RestoredFrom(c) ==
  IF c.run = "this" THEN "checkpoint of this run" ELSE "checkpoint of an earlier run"

\* gemma, mesh = get_ref_model(ckpt_path) (get_base_model in the QLoRA
\* notebook): checkpointer.restore(ckpt_path, ...) and nnx.merge.
RunRestore ==
  /\ Running("restore")
  /\ LET found == {c \in At(disk, PathOf(Current)) : c.status = "committed"}
     IN  IF Missing(Current) THEN Stop("NameError")
         ELSE IF found = {} THEN Stop("FileNotFoundError")
         ELSE LET c == CHOOSE x \in found : TRUE
              IN  Done(Bind(Bind(names, {"gemma"}, Object("model", RestoredFrom(c))),
                            {"mesh"}, Object("mesh", "none")), disk)
  /\ UNCHANGED Calls

RunDisplay ==
  /\ Running("display")
  /\ IF Missing(Current) THEN Stop("NameError") ELSE Done(names, disk)
  /\ UNCHANGED Calls

\* lora_gemma = get_lora_model(gemma, mesh=mesh): LoRA on top of the base model.
RunLora ==
  /\ Running("lora")
  /\ IF Missing(Current) THEN Stop("NameError")
     ELSE Done(Bind(names, Current.targets, Object("model", Value(names, "gemma").from)),
               disk)
  /\ UNCHANGED Calls

\* The directory of the checkpoint manager for a step: root/<step>/model_params.
StepPath(root, step) == <<root, ToString(step), "model_params">>

\* Whether a call was given the parameter.
Has(obj, parameter) == parameter \in DOMAIN obj

\* The training_config of the trainer that a train statement is called on.
ConfigOf(stmt) == Value(names, stmt.args.self).training_config

\* The trainer has a checkpoint manager when its configuration names a
\* checkpoint_root_directory.
Saves(cfg) == Has(cfg, "checkpoint_root_directory")

\* The steps kept once step s is saved: the newest max_to_keep, or all of
\* them when the configuration has no checkpointing_options.
Keep(cfg, kept, s) ==
  LET all == Append(kept, s)
      max_to_keep == IF Has(cfg, "checkpointing_options")
                     THEN cfg.checkpointing_options.max_to_keep ELSE Len(all)
  IN  IF Len(all) <= max_to_keep THEN all
      ELSE SubSeq(all, Len(all) - max_to_keep + 1, Len(all))

\* The checkpoint manager saves step s of the trainer: the write begins, and
\* the steps that are no longer kept are removed from its directory.
SaveStep(d, cfg, kept, s) ==
  LET root == cfg.checkpoint_root_directory.from
      keep == Keep(cfg, kept, s)
      gone == {c \in d : \E i \in 1..Len(kept) :
                           /\ c.path = StepPath(root, kept[i])
                           /\ \A j \in 1..Len(keep) : keep[j] # kept[i]}
  IN  (d \ gone) \cup {Checkpoint(StepPath(root, s), "writing", "this",
                                    Object("lora params", "training"))}

\* One training step of grpo_trainer.train(dataset) or of
\* trainer.train(train_ds, validation_ds): the trainer goes on with the batch
\* it has, for at most num_iterations steps (one step, when the configuration
\* has no num_iterations), or takes the next one; it does no step beyond
\* max_steps.  A trainer with a checkpoint manager saves the step when it is a
\* multiple of save_interval_steps, and may save it when it has no checkpoint
\* yet.
RunTrainStep ==
  /\ Running("train")
  /\ ~Missing(Current)
  /\ LET cfg == ConfigOf(Current)
         train_ds == Value(names, Current.args.train_ds)
         s == trainer.step + 1
         num_iterations == IF Has(cfg, "num_iterations") THEN cfg.num_iterations ELSE 1
         due == /\ Has(cfg, "checkpointing_options")
                /\ s % cfg.checkpointing_options.save_interval_steps = 0
     IN  /\ trainer.step < cfg.max_steps
         /\ \E b \in {trainer.batch, trainer.batch + 1},
               saved \in {Saves(cfg) /\ due, Saves(cfg) /\ trainer.kept = <<>>} :
              /\ b >= 1
              /\ Has(train_ds, "batches") => b <= train_ds.batches
              /\ b <= s
              /\ s <= b * num_iterations
              /\ trainer' = [step |-> s, batch |-> b,
                             kept |-> IF saved THEN Keep(cfg, trainer.kept, s)
                                      ELSE trainer.kept]
              /\ disk' = IF saved THEN SaveStep(disk, cfg, trainer.kept, s) ELSE disk
  /\ UNCHANGED <<notebook, pc, names, error>>
  /\ UNCHANGED Calls

\* train returns: max_steps steps are done or the batches are used up (after
\* any step, for train_ds, whose number of batches the notebook does not
\* fix).  On closing, a trainer with a checkpoint manager may save its last
\* step.
RunTrainEnd ==
  /\ Running("train")
  /\ IF Missing(Current) THEN Stop("NameError")
     ELSE LET cfg == ConfigOf(Current)
              train_ds == Value(names, Current.args.train_ds)
              s == trainer.step
              last == \E i \in 1..Len(trainer.kept) : trainer.kept[i] = s
          IN  /\ \/ s = cfg.max_steps
                 \/ ~Has(train_ds, "batches")
                 \/ Has(train_ds, "batches") /\ trainer.batch = train_ds.batches
              /\ \/ /\ UNCHANGED trainer
                    /\ disk' = disk
                 \/ /\ Saves(cfg)
                    /\ ~last
                    /\ trainer' = [trainer EXCEPT !.kept = Keep(cfg, trainer.kept, s)]
                    /\ disk' = SaveStep(disk, cfg, trainer.kept, s)
              /\ pc' = pc + 1
              /\ UNCHANGED <<notebook, names, error>>
  /\ UNCHANGED Calls

\* The path of the post-training restore: os.path.join(CKPT_DIR, step, leaf).
TrainedPathOf(stmt) == <<Value(names, stmt.path[1]).from, stmt.path[2], stmt.path[3]>>

\* trained_lora_params = checkpointer.restore(trained_ckpt_path, target=abs_params)
RunLoad ==
  /\ Running("load")
  /\ LET found == {c \in At(disk, TrainedPathOf(Current)) : c.status = "committed"}
     IN  IF Missing(Current) THEN Stop("NameError")
         ELSE IF found = {} THEN Stop("FileNotFoundError")
         ELSE LET c == CHOOSE x \in found : TRUE
              IN  Done(Bind(names, Current.targets,
                            Object("lora params", RestoredFrom(c))), disk)
  /\ UNCHANGED Calls

InitNotebook ==
  /\ notebook \in Notebooks
  /\ pc = 1
  /\ names = {}
  /\ disk \in Disks
  /\ error = "none"
  /\ trainer = NewTrainer
  /\ completions = <<>>
  /\ answer = <<>>
  /\ kargs = {}
  /\ NoCall

NextNotebook ==
  \/ RunAssign
  \/ RunDef
  \/ RunSave
  \/ Commit
  \/ RunSleep
  \/ RunDel
  \/ RunCollect
  \/ RunRestore
  \/ RunDisplay
  \/ RunTrainer
  \/ RunMethod
  \/ RunTrainStep
  \/ RunTrainEnd
  \/ RunLoad
  \/ RunLora

SpecNotebook == InitNotebook /\ [][NextNotebook]_vars

(***************************************************************************)
(* What the claims speak of, stated on the text itself.                    *)
(***************************************************************************)
\* The markers that occur exactly once in s.
OnceMarkers(s) ==
  {m \in Markers : \E k \in 1..Len(s) : s[k] = m /\ \A j \in 1..Len(s) : s[j] = m => j = k}

\* The markers that occur two or more times in s.
RepeatedMarkers(s) ==
  {m \in Markers : \E j, k \in 1..Len(s) : j # k /\ s[j] = m /\ s[k] = m}

\* s is one well-formed tagged block: whitespace, reasoning-start, non-empty
\* reasoning, reasoning-end, any text, solution-start, non-empty solution,
\* solution-end, whitespace; each marker exactly once.
WellFormed(s) ==
  /\ OnceMarkers(s) = Markers
  /\ \E p, q, r, t \in 1..Len(s) :
       /\ s[p] = reasoning_start /\ s[q] = reasoning_end
       /\ s[r] = solution_start /\ s[t] = solution_end
       /\ p + 1 < q /\ q < r /\ r + 1 < t
       /\ \A k \in 1..(p - 1) : IsSpace(s[k])
       /\ \A k \in (t + 1)..Len(s) : IsSpace(s[k])

Batch == 1..Len(completions)

\* C1: match_format_exactly gives every well-formed tagged block (optional
\* whitespace around it, each marker exactly once) the bonus 3.0, and every
\* score it returns is 0 or 3.0.
C1_WellFormedGetsBonus ==
  called = "match_format_exactly" =>
    /\ raised = "none"
    /\ Len(scores) = Len(completions)
    /\ \A i \in Batch :
         /\ scores[i] \in {0, ExactFormatBonus}
         /\ WellFormed(completions[i]) => scores[i] = ExactFormatBonus

\* A well-formed block with leading whitespace and text between the reasoning-end
\* and the solution-start marker has been scored 3.0.
C1_Witness ==
  /\ called = "match_format_exactly"
  /\ WellFormed(completions[1])
  /\ IsSpace(completions[1][1])
  /\ \E k \in 1..(Len(completions[1]) - 1) :
       completions[1][k] = reasoning_end /\ completions[1][k + 1] = "a"
  /\ scores[1] = ExactFormatBonus

\* C2: every completion to which match_format_exactly gives 3.0 contains each
\* of the four markers exactly once.
C2_BonusOnlyIfEachMarkerOnce ==
  called = "match_format_exactly" =>
    \A i \in Batch :
      scores[i] = ExactFormatBonus => OnceMarkers(completions[i]) = Markers

\* C3: match_format_approximately gives +0.5 for each marker that occurs exactly
\* once and -0.5 for each other marker; the score is one of -2, -1, 0, 1, 2 and
\* is 2.0 exactly when all four markers occur exactly once.
C3_HalfPointPerMarker ==
  called = "match_format_approximately" =>
    /\ raised = "none"
    /\ Len(scores) = Len(completions)
    /\ \A i \in Batch :
         LET once == Cardinality(OnceMarkers(completions[i]))
         IN  /\ scores[i] = MarkerBonus * once - MarkerBonus * (4 - once)
             /\ scores[i] \in {-200, -100, 0, 100, 200}
             /\ scores[i] = 200 <=> OnceMarkers(completions[i]) = Markers

\* A completion with one marker repeated, one absent and two occurring once
\* has been scored 0.
C3_Witness ==
  /\ called = "match_format_approximately"
  /\ Cardinality(RepeatedMarkers(completions[1])) = 1
  /\ Cardinality(OnceMarkers(completions[1])) = 2
  /\ scores[1] = 0

\* C4: if the markers occurring exactly once in completion A are among those
\* occurring exactly once in completion B, match_format_approximately scores A
\* no higher than B, and lower by 1.0 for each marker by which they differ.
C4_MonotoneInOnceMarkers ==
  called = "match_format_approximately" /\ Len(completions) = 2 =>
    LET A == OnceMarkers(completions[1])
        B == OnceMarkers(completions[2])
    IN  A \subseteq B =>
          /\ scores[1] <= scores[2]
          /\ A # B => scores[1] < scores[2]
          /\ scores[2] - scores[1] = 2 * MarkerBonus * Cardinality(B \ A)

\* A, with a repeated marker and an absent one, has been scored 2.0 below B,
\* in which both occur once.
C4_Witness ==
  /\ called = "match_format_approximately"
  /\ Len(completions) = 2
  /\ OnceMarkers(completions[1]) \subseteq OnceMarkers(completions[2])
  /\ RepeatedMarkers(completions[1]) # {}
  /\ Cardinality(OnceMarkers(completions[2]) \ OnceMarkers(completions[1])) = 2
  /\ Cardinality(OnceMarkers(completions[1]) \cup RepeatedMarkers(completions[1])) < 4
  /\ scores[2] - scores[1] = 200

(***************************************************************************)
(* Numbers as the claims speak of them: the decimal a text denotes, in     *)
(* exact arithmetic.                                                       *)
(***************************************************************************)
\* float(s) returns: s can be parsed.
Parseable(s) == IsDecimal(StripOf(s, FloatSpace))

\* s is parsed as a decimal number (not as an infinity or a NaN).
IsNumber(s) ==
  /\ Parseable(s)
  /\ LET b == Unsigned(StripOf(s, FloatSpace))
     IN  ~IsWord(b, InfWord) /\ ~IsWord(b, InfinityWord) /\ ~IsWord(b, NanWord)

\* The decimal that the number s denotes.
Denoted(s) == Decimal(StripOf(s, FloatSpace))

\* The digits of the decimal x times 10^(x.exp - low), for low <= x.exp.
Scaled(x, low) == BigMul(DigitsNat(x.digits), Pow10(x.exp - low))

\* The guess g over the truth a, both numbers and a not zero, as the exact
\* fraction sign * num / den with den > 0.
ExactRatio(g, a) ==
  Once({(LET low == Min({xy[1].exp, xy[2].exp})
         IN  [sign |-> xy[1].sign * xy[2].sign,
              num |-> Scaled(xy[1], low),
              den |-> Scaled(xy[2], low)]) : xy \in {<<Denoted(g), Denoted(a)>>}})

IsZero(a) == IsNumber(a) /\ Denoted(a).digits = <<>>

\* lo / 10 <= r <= hi / 10, for lo > 0
Within(r, lo, hi) ==
  /\ r.sign = 1
  /\ BigGeq(BigMulLimb(r.num, 10), BigMulLimb(r.den, lo))
  /\ BigGeq(BigMulLimb(r.den, hi), BigMulLimb(r.num, 10))

\* The score the ratio bands give, the limits inclusive; an infinity or a NaN
\* is within no band.
BandScore(g, a) ==
  IF ~IsNumber(g) \/ ~IsNumber(a) THEN -WrongAnswerPenalty
  ELSE Once({(IF Within(r, 9, 11) THEN Within10Score
              ELSE IF Within(r, 8, 12) THEN Within20Score
              ELSE -WrongAnswerPenalty) : r \in {ExactRatio(g, a)}})

\* Two texts are read as the same floating-point number: both parse, neither
\* as a NaN, and the doubles nearest to what they denote are one double.
EqualAsFloats(g, a) ==
  /\ Parseable(g) /\ Parseable(a)
  /\ Once({(/\ ~xy[1].nan /\ ~xy[2].nan
            /\ FloatEq(xy[1], xy[2])) :
           xy \in {<<float(g), float(a)>>}})

\* Two texts denote the same number.
NumericallyEqual(g, a) ==
  /\ IsNumber(g) /\ IsNumber(a)
  /\ Once({(LET low == Min({xy[1].exp, xy[2].exp})
            IN  \/ xy[1].digits = <<>> /\ xy[2].digits = <<>>
                \/ /\ xy[1].sign = xy[2].sign
                   /\ Scaled(xy[1], low) = Scaled(xy[2], low)) :
           xy \in {<<Denoted(g), Denoted(a)>>}})

\* C5: in check_answer a completion gets 3.0 exactly when an answer was
\* extracted from it and that text equals the ground truth token for token.
C5_MaxIffExactMatch ==
  called = "check_answer" /\ raised = "none" =>
    \A i \in Batch :
      scores[i] = ExactAnswerScore <=> (extracted[i] # None /\ extracted[i] = answer[i])

\* A guess of several characters, blanks among them, equal to the ground truth
\* has been scored 3.0.
C5_Witness ==
  /\ called = "check_answer"
  /\ extracted[1] # None
  /\ extracted[1] = answer[1]
  /\ Len(extracted[1]) = 2
  /\ \E k \in 1..2 : IsSpace(extracted[1][k])
  /\ scores[1] = ExactAnswerScore

\* C6: when guess and ground truth both parse as numbers, the truth is not
\* zero and the two differ as texts even when stripped, the score is 0.5 if
\* 0.9 <= guess / truth <= 1.1, else 0.25 if 0.8 <= guess / truth <= 1.2, else
\* -1.0, the limits inclusive.
C6_RatioBandsInclusive ==
  called = "check_answer" /\ raised = "none" =>
    \A i \in Batch :
      ( /\ extracted[i] # None /\ answer[i] # None
        /\ Parseable(extracted[i]) /\ Parseable(answer[i])
        /\ ~IsZero(answer[i])
        /\ strip(extracted[i]) # strip(answer[i]) )
      => scores[i] = BandScore(extracted[i], answer[i])

\* C7: when the format matches, guess and string ground truth differ even when
\* stripped and the guess does not parse as a number, the completion gets -0.5;
\* with string ground truths check_answer returns a score for every completion.
C7_UnparseableGetsPenalty ==
  (called = "check_answer" /\ \A i \in Batch : answer[i] # None) =>
    /\ raised = "none"
    /\ Len(scores) = Len(completions)
    /\ \A i \in Batch :
         ( /\ extracted[i] # None
           /\ strip(extracted[i]) # strip(answer[i])
           /\ ~Parseable(extracted[i]) )
         => scores[i] = -UnparseablePenalty

\* In a batch of two, the first guess did not parse and got -0.5, and the
\* second completion was still scored, 3.0.
C7_Witness ==
  /\ called = "check_answer"
  /\ Len(completions) = 2
  /\ extracted[1] # None /\ ~Parseable(extracted[1])
  /\ answer[1] # None /\ answer[2] # None
  /\ scores = <<-UnparseablePenalty, ExactAnswerScore>>

\* C8: each format-matching completion gets the score of the first tier that
\* applies: exact match 3.0, match of the stripped texts 1.5, ratio within 10%
\* 0.5, within 20% 0.25, no ratio (a text that is no number, a zero ground
\* truth) -0.5, a wrong number -1.0; the credit strictly decreases along them.
C8_OneTierInOrder ==
  /\ ExactAnswerScore > StrippedAnswerScore /\ StrippedAnswerScore > Within10Score
  /\ Within10Score > Within20Score /\ Within20Score > -UnparseablePenalty
  /\ -UnparseablePenalty > -WrongAnswerPenalty
  /\ called = "check_answer" /\ raised = "none" =>
       \A i \in Batch :
         extracted[i] # None /\ answer[i] # None =>
           scores[i] =
             IF extracted[i] = answer[i] THEN ExactAnswerScore
             ELSE IF strip(extracted[i]) = strip(answer[i]) THEN StrippedAnswerScore
             ELSE IF ~Parseable(extracted[i]) \/ ~Parseable(answer[i]) THEN -UnparseablePenalty
             ELSE IF IsZero(answer[i]) THEN -UnparseablePenalty
             ELSE BandScore(extracted[i], answer[i])

\* C9: an extracted answer is the text between a solution-start marker and the
\* next solution-end marker after it, and holds neither of the two markers.
C9_ExtractedBetweenMarkers ==
  called = "check_answer" =>
    \A i \in Batch :
      extracted[i] # None =>
        LET s == completions[i]
        IN  /\ \E r, t \in 1..Len(s) :
                 /\ s[r] = solution_start /\ s[t] = solution_end /\ r < t
                 /\ \A k \in (r + 1)..(t - 1) : s[k] # solution_end
                 /\ extracted[i] = SubSeq(s, r + 1, t - 1)
            /\ \A k \in 1..Len(extracted[i]) :
                 extracted[i][k] \notin {solution_start, solution_end}

\* The first maximal run of digits and dots after the first solution-start
\* marker of s, or None.
FirstNumberToken(s) ==
  LET starts == {r \in 1..Len(s) : s[r] = solution_start}
  IN  IF starts = {} THEN None
      ELSE LET first == {k \in (Min(starts) + 1)..Len(s) : IsNumChar(s[k])}
           IN  IF first = {} THEN None
               ELSE LET k == Min(first)
                        after == {j \in k..Len(s) : ~IsNumChar(s[j])}
                    IN  SubSeq(s, k, IF after = {} THEN Len(s) ELSE Min(after) - 1)

\* C10: check_numbers gives 1.5 exactly when the first numeric token after the
\* first solution-start marker and the stripped ground truth both parse as
\* numbers and are equal as floating-point numbers, and 0 in every other case;
\* two texts that denote the same number get 1.5.
C10_NumberIffEqual ==
  called = "check_numbers" /\ raised = "none" =>
    /\ Len(scores) = Len(completions)
    /\ \A i \in Batch :
         LET tok == FirstNumberToken(completions[i])
         IN  /\ extracted[i] = tok
             /\ scores[i] \in {0, NumberScore}
             /\ scores[i] = NumberScore <=>
                  ( /\ tok # None /\ answer[i] # None
                    /\ EqualAsFloats(tok, strip(answer[i])) )
             /\ ( /\ tok # None /\ answer[i] # None
                  /\ NumericallyEqual(tok, strip(answer[i])) )
                => scores[i] = NumberScore

\* A token that follows other text after the marker and is written differently
\* from the ground truth, but equal to it as a number, has been scored 1.5.
C10_Witness ==
  /\ called = "check_numbers"
  /\ extracted[1] # None /\ answer[1] # None
  /\ extracted[1] # strip(answer[1])
  /\ \E k \in 1..(Len(completions[1]) - 1) :
       completions[1][k] = solution_start /\ ~IsNumChar(completions[1][k + 1])
  /\ scores[1] = NumberScore

(***************************************************************************)
(* The batch as a whole.                                                   *)
(***************************************************************************)
RewardFunctions ==
  {"match_format_exactly", "match_format_approximately", "check_answer", "check_numbers"}

\* The score function f gives one completion paired with one string ground truth.
ItemScore(f, response, true_answer) ==
  IF f = "match_format_exactly" THEN ExactScore(response)
  ELSE IF f = "match_format_approximately" THEN ApproxScore(response)
  ELSE IF f = "check_answer" THEN AnswerScore(match_format_search(response), true_answer)
  ELSE NumberScore1(match_numbers_search(response), true_answer)

\* C11: on a non-empty batch with one answer per completion, each of the four
\* functions returns a list with one score per completion, and the score at
\* position i is that of completion i paired with answer i.
C11_OneScorePerCompletion ==
  (called \in RewardFunctions /\ Len(answer) = Len(completions) /\ completions # <<>>) =>
    /\ raised = "none"
    /\ Len(scores) = Len(completions)
    /\ \A i \in Batch : scores[i] = ItemScore(called, completions[i], answer[i])

\* C12: a completion gets the 3.0 of match_format_exactly only if, leading and
\* trailing whitespace apart, it begins with the reasoning-start marker and ends
\* with the solution-end marker: text before or after the block, on the same
\* line or on another, gives 0.
C12_BonusOnlyForWholeCompletion ==
  called = "match_format_exactly" =>
    \A i \in Batch :
      scores[i] = ExactFormatBonus =>
        LET body == strip(completions[i])
        IN  /\ body # <<>>
            /\ body[1] = reasoning_start
            /\ body[Len(body)] = solution_end

\* s holds the four markers at strictly increasing positions, in the order
\* reasoning-start, reasoning-end, solution-start, solution-end.
InOrder(s) ==
  \E p, q, r, t \in 1..Len(s) :
    /\ p < q /\ q < r /\ r < t
    /\ s[p] = reasoning_start /\ s[q] = reasoning_end
    /\ s[r] = solution_start /\ s[t] = solution_end

\* C13: every completion to which match_format_exactly gives 3.0 holds the four
\* markers in order, and a completion with each marker exactly once but not in
\* that order gets 0.
C13_BonusOnlyInOrder ==
  called = "match_format_exactly" =>
    \A i \in Batch :
      /\ scores[i] = ExactFormatBonus => InOrder(completions[i])
      /\ (OnceMarkers(completions[i]) = Markers /\ ~InOrder(completions[i]))
           => scores[i] = 0

\* A completion that starts with the reasoning-start marker, ends with the
\* solution-end marker and holds each marker once, the two inner ones swapped,
\* has been scored 0.
C13_Witness ==
  /\ called = "match_format_exactly"
  /\ OnceMarkers(completions[1]) = Markers
  /\ ~InOrder(completions[1])
  /\ completions[1][1] = reasoning_start
  /\ completions[1][Len(completions[1])] = solution_end
  /\ \E q, r \in 1..Len(completions[1]) :
       r + 1 < q /\ completions[1][r] = solution_start /\ completions[1][q] = reasoning_end
  /\ scores[1] = 0

\* C14: when check_numbers gives 1.5, the number it compared stands between a
\* solution-start marker and the solution-end marker closing that block: no
\* solution-end marker between the marker and the number, and one after it.
C14_NumberInsideSolution ==
  called = "check_numbers" /\ raised = "none" =>
    \A i \in Batch :
      scores[i] = NumberScore =>
        LET s == completions[i]
        IN  \E r, k, t \in 1..Len(s) :
              /\ r < k /\ k < t
              /\ s[r] = solution_start /\ s[t] = solution_end
              /\ IsNumChar(s[k])
              /\ \A j \in r..k : s[j] # solution_end
              /\ \A j \in (r + 1)..(k - 1) : ~IsNumChar(s[j])
              /\ \A j \in 1..(r - 1) : s[j] # solution_start

\* C15: check_numbers never penalizes and never raises on a parse failure: with
\* string ground truths it returns one score per completion, each 0 or 1.5, and
\* 0 for a completion whose numeric token or whose ground truth is no number.
C15_ParseFailureScoresZero ==
  (called = "check_numbers" /\ \A i \in Batch : answer[i] # None) =>
    /\ raised = "none"
    /\ Len(scores) = Len(completions)
    /\ \A i \in Batch :
         /\ scores[i] \in {0, NumberScore}
         /\ ( /\ extracted[i] # None
              /\ ~Parseable(extracted[i]) \/ ~Parseable(strip(answer[i])) )
              => scores[i] = 0

\* In a batch of two, the token of the first completion holds two dots and got
\* 0, and the second completion was still scored, 1.5.
C15_Witness ==
  /\ called = "check_numbers"
  /\ Len(completions) = 2
  /\ extracted[1] # None
  /\ Cardinality({k \in 1..Len(extracted[1]) : extracted[1][k] = "."}) = 2
  /\ answer[1] # None /\ Parseable(strip(answer[1]))
  /\ answer[2] # None
  /\ scores = <<0, NumberScore>>

\* The call of reward function f on a batch.
Call(f, responses, truths, others) ==
  IF f = "match_format_exactly" THEN match_format_exactly(responses)
  ELSE IF f = "match_format_approximately" THEN match_format_approximately(responses)
  ELSE IF f = "check_answer" THEN check_answer(responses, truths)
  ELSE check_numbers(responses, truths, others)

\* C16: what a reward function gives a completion depends on that completion and
\* its ground truth alone: a call on the batch ends for completion i as the call
\* on that pair alone ends, with the same score, wherever the pair stands and
\* whatever the rest of the batch is; equal pairs of a batch get equal scores.
C16_ScoreOfThePairAlone ==
  called \in RewardFunctions =>
    /\ \A i \in Batch :
         LET alone == Call(called, <<completions[i]>>, <<answer[i]>>, Keywords(<<completions[i]>>))
         IN  /\ alone.raised = raised
             /\ raised = "none" => scores[i] = alone.scores[1]
    /\ raised = "none" =>
         \A i, j \in Batch :
           (completions[i] = completions[j] /\ answer[i] = answer[j]) => scores[i] = scores[j]

\* C19: with ground truths that may be absent (None), check_answer and
\* check_numbers return one score per completion and do not raise.
C19_AbsentAnswerStillScored ==
  called \in {"check_answer", "check_numbers"} =>
    /\ raised = "none"
    /\ Len(scores) = Len(completions)

\* C18: with string ground truths check_answer gives a completion a score other
\* than 0 exactly when match_format_exactly gives it 3.0; a completion that does
\* not match the format gets 0, never a penalty.
C18_NonZeroIffFormatMatches ==
  (called = "check_answer" /\ \A i \in Batch : answer[i] # None) =>
    /\ raised = "none"
    /\ \A i \in Batch :
         LET exact == match_format_exactly(completions).scores[i]
         IN  /\ scores[i] # 0 <=> exact = ExactFormatBonus
             /\ exact # ExactFormatBonus => scores[i] = 0

\* A completion without the solution-end marker, whose text after the
\* solution-start marker is a number other than the ground truth, got 0.
C18_Witness ==
  /\ called = "check_answer"
  /\ match_format_exactly(completions).scores[1] = 0
  /\ \E k \in 1..(Len(completions[1]) - 1) :
       /\ completions[1][k] = solution_start
       /\ Parseable(SubSeq(completions[1], k + 1, Len(completions[1])))
       /\ answer[1] # None /\ Parseable(answer[1])
       /\ ~NumericallyEqual(SubSeq(completions[1], k + 1, Len(completions[1])), answer[1])
  /\ scores[1] = 0

\* The text between the solution markers of a well-formed block.
SolutionText(s) ==
  LET r == CHOOSE k \in 1..Len(s) : s[k] = solution_start
      t == CHOOSE k \in 1..Len(s) : s[k] = solution_end
  IN  SubSeq(s, r + 1, t - 1)

\* C20: with a string ground truth the four scores of a completion add up to
\* between -2.0 and 9.5, to at least 0 when the completion matches the exact
\* format, and to 9.5 when the completion is a well-formed block whose solution
\* text is a number and equals the ground truth as a text.
C20_TotalReward ==
  (called = "check_numbers" /\ raised = "none" /\ \A i \in Batch : answer[i] # None) =>
    \A i \in Batch :
      LET exact == match_format_exactly(completions).scores[i]
          total == exact + match_format_approximately(completions).scores[i]
                     + check_answer(completions, answer).scores[i] + scores[i]
      IN  /\ -200 <= total /\ total <= 950
          /\ exact = ExactFormatBonus => total >= 0
          /\ ( /\ WellFormed(completions[i])
               /\ SolutionText(completions[i]) = answer[i]
               /\ Parseable(answer[i]) )
             => total = 950

\* The places of the statements of kind op in program P.
Places(P, op) == {k \in 1..Len(P) : P[k].op = op}

\* C17: in both notebooks the restore reads the path the save wrote, the save
\* comes before the restore, and params, gemma and state are deleted between
\* the two; once the restore has run, the model is the one restored from the
\* checkpoint this run saved, and no name refers to the weights loaded from
\* Kaggle.
C17_RestoreOwnCheckpoint ==
  /\ \A nb \in Notebooks :
       LET P == Program(nb)
       IN  /\ Places(P, "restore") # {}
           /\ \A k \in Places(P, "restore") :
                \E j \in Places(P, "save") :
                  /\ j < k
                  /\ P[j].path = P[k].path
                  /\ \A n \in {"params", "gemma", "state"} :
                       \E d \in Places(P, "del") : j < d /\ d < k /\ n \in P[d].targets
  /\ (error = "none" /\ \E k \in Places(Program(notebook), "restore") : k < pc) =>
       /\ Bound(names, "gemma")
       /\ Value(names, "gemma") = Object("model", "checkpoint of this run")
       /\ ~Bound(names, "params") /\ ~Bound(names, "state")
       /\ \A b \in names : b[2].from # "checkpoint of an earlier run"
       /\ \A b \in names : b[2].kind \in {"params", "model", "state"} => b[2].from # "kaggle"
       /\ \E c \in At(disk, join(INTERMEDIATE_CKPT_DIR, "state")) :
            c.run = "this" /\ c.status = "committed"

\* The QLoRA notebook has run to its end, both trainings included, with the
\* model restored from the checkpoint of this run, and the LoRA trainer has
\* left the checkpoint of its last step under CKPT_DIR.
C17_Witness ==
  /\ notebook = "qlora"
  /\ pc = Len(Program("qlora")) + 1
  /\ error = "none"
  /\ Value(names, "gemma") = Object("model", "checkpoint of this run")
  /\ Value(names, "lora_gemma") = Object("model", "checkpoint of this run")
  /\ ~Bound(names, "params")
  /\ Bound(names, "trainer") /\ Bound(names, "lora_trainer")
  /\ trainer.step = 100
  /\ disk = {Checkpoint(join(INTERMEDIATE_CKPT_DIR, "state"), "committed", "this",
                        Object("state", "kaggle")),
             Checkpoint(StepPath(CKPT_DIR, 100), "committed", "this",
                        Object("lora params", "training"))}

\* C22: in check_answer, when the format matches, the ground truth is a number
\* equal to zero and the guess is a number that differs from it as a text even
\* when stripped, the division by zero does not leave the call: check_answer
\* returns and the completion gets -0.5.
C22_ZeroTruthGetsPenalty ==
  (called = "check_answer" /\ \A i \in Batch : answer[i] # None) =>
    /\ raised = "none"
    /\ Len(scores) = Len(completions)
    /\ \A i \in Batch :
         ( /\ extracted[i] # None
           /\ Parseable(answer[i]) /\ IsZero(answer[i])
           /\ Parseable(extracted[i])
           /\ strip(extracted[i]) # strip(answer[i]) )
         => scores[i] = -UnparseablePenalty

\* A guess that is a number other than zero has been scored -0.5 against a
\* ground truth of zero.
C22_Witness ==
  /\ called = "check_answer"
  /\ raised = "none"
  /\ extracted[1] # None /\ answer[1] # None
  /\ Parseable(answer[1]) /\ IsZero(answer[1])
  /\ Parseable(extracted[1]) /\ ~IsZero(extracted[1])
  /\ scores[1] = -UnparseablePenalty

\* The place of the post-training restore in the GRPO demo.
LoadPlace == CHOOSE k \in 1..Len(GrpoRun) : GrpoRun[k].op = "load"

\* The checkpoints of the training run that are on disk under the path that the
\* post-training cell restores: a step the trainer reached, saved and keeps.
TrainedCheckpoints ==
  {c \in disk :
     /\ c.run = "this"
     /\ \E s \in 1..trainer.step :
          /\ \E i \in 1..Len(trainer.kept) : trainer.kept[i] = s
          /\ c.path = StepPath(CKPT_DIR, s)
          /\ c.path = <<CKPT_DIR, GrpoRun[LoadPlace].path[2], GrpoRun[LoadPlace].path[3]>>}

\* C21: in the GRPO demo, once training is over, the step whose checkpoint the
\* post-training cell restores (CKPT_DIR/120/model_params) is a step that the
\* trainer reached, at which a checkpoint was saved and is still kept; the
\* restore does not fail for want of it.
C21_RestoresTrainedCheckpoint ==
  (notebook = "grpo" /\ pc >= LoadPlace) =>
    /\ TrainedCheckpoints # {}
    /\ error # "FileNotFoundError"

\* Training is over after max_steps steps with the last step saved and written,
\* and the post-training restore has stopped the run: there is no checkpoint of
\* the step it names.
C21_Counterexample ==
  /\ notebook = "grpo"
  /\ pc = LoadPlace
  /\ trainer.step = MAX_STEPS
  /\ trainer.kept = <<MAX_STEPS>>
  /\ \E c \in disk : c.path = StepPath(CKPT_DIR, MAX_STEPS) /\ c.status = "committed"
  /\ TrainedCheckpoints = {}
  /\ error = "FileNotFoundError"

====
